---- MODULE Spec2Model ----
(***************************************************************************)
(* A model of django-GDPR: the Fields selection tree and its subtraction   *)
(* (gdpr/fields.py), the purpose field filtering (gdpr/purposes/default.py)*)
(* the model anonymizer's update_obj traversal with its AnonymizedData     *)
(* markers (gdpr/anonymizers/model_anonymizers.py) and the legal reason    *)
(* life cycle (gdpr/models.py).                                            *)
(***************************************************************************)
EXTENDS Integers, Sequences, FiniteSets, TLC

VARIABLES
    fA,        \* SpecFields: the field matrix parsed into the left operand
    fB,        \* SpecFields: the field matrix parsed into the right operand
    fOut,      \* SpecFields: the Fields object A after `A -= B`
    fpc,       \* SpecFields: "init" before the subtraction, "done" after it
    db,        \* committed storage: field values, AnonymizedData markers,
               \* existing objects (and the key each marker was written with)
    stack,     \* the pending update_obj invocations of the call in progress
    cur,       \* the call in progress, or the last call made
    result,    \* "none", "running", "ok", "raised" or "interrupted"
    prev,      \* the call made before cur and its result
    snap,      \* db when cur started
    snapPrev,  \* db when prev started
    trace,     \* what the call in progress has done so far
    ncalls,    \* number of calls started
    reasons,   \* the state of the customer's LegalReason of each purpose
    procs,     \* SpecConcurrent: the traversals that run at the same time
    arg,       \* the arguments a function of the library is applied to
    ret,       \* what the function has returned or raised, or NoRet before
    expires_at,\* LegalReason.expires_at of the legal reason of each purpose
    now        \* the clock (timezone.now())

(***************************************************************************)
(* Field matrices (FieldMatrix): the string '__ALL__' or a tuple whose     *)
(* elements are field-name strings and (relation name, matrix) tuples.     *)
(* An element records whether it is a string and, for a tuple, its length; *)
(* a malformed element is a tuple of another length than two or a value    *)
(* that is neither a string nor a tuple (length 0).                        *)
(***************************************************************************)
ALL == [bare |-> TRUE, elems |-> <<>>]
Tup(es) == [bare |-> FALSE, elems |-> es]
EmptyM == Tup(<<>>)
S(n) == [str |-> TRUE, name |-> n, sub |-> EmptyM, len |-> 0]
R(n, m) == [str |-> FALSE, name |-> n, sub |-> m, len |-> 2]
\* (name, matrix, 'foo'): a tuple of three
Triple(n, m) == [str |-> FALSE, name |-> n, sub |-> m, len |-> 3]
\* the number 1 as an element
Other == [str |-> FALSE, name |-> "", sub |-> EmptyM, len |-> 0]

(***************************************************************************)
(* The registered anonymizers of the test application                      *)
(* (tests/anonymizers.py, tests/models.py) reduced to the fields used      *)
(* here, plus the generic model T of the Fields unit tests.                *)
(***************************************************************************)
NoModel == "?"

\* ModelAnonymizerBase.keys(): the field names of the model's anonymizer.
keys(model) ==
    CASE model = "Customer" ->
            <<"first_name", "last_name", "primary_email_address">>
      [] model = "Account" -> <<"number", "IBAN", "owner">>
      [] model = "Payment" -> <<"value", "secret_code">>
      [] model = "Note" -> <<"note">>
      [] model = "ContactForm" -> <<"email", "full_name">>
      [] model = "ChildE" -> <<"first_name", "last_name">>
      [] model = "T" -> <<"a", "b", "x", "y">>
      [] OTHER -> <<>>

\* ModelAnonymizerBase.get_related_model: the model a relation name leads to,
\* NoModel when the name is neither a model field nor a relation anonymizer.
get_related_model(model, name) ==
    CASE model = "Customer" /\ name = "accounts" -> "Account"
      [] model = "Customer" /\ name = "notes" -> "Note"
      [] model = "Account" /\ name = "payments" -> "Payment"
      [] model = "Note" /\ name = "contact_form" -> "ContactForm"
      [] model = "T" /\ name \in {"r", "s"} -> "T"
      [] OTHER -> NoModel

\* Meta.reversible_anonymization (ModelAnonymizerBase.is_reversible)
is_reversible(model) == model # "ContactForm"

\* the anonymizer of the model is a DeleteModelAnonymizer
IsDeleteModelAnonymizer(model) == model = "Account"
DELETE_FIELD_NAME == "__SELF__"

\* the anonymizer overrides get_encryption_key (CustomerAnonymizer)
OverridesKey(model) == model = "Customer"

\* Meta.anonymize_reversion (ModelAnonymizerBase.anonymize_reversion)
anonymize_reversion(model) == model = "ChildE"

\* the field anonymizer parses the value before it translates it
\* (CzechAccountNumberFieldAnonymizer, CzechIBANSmartFieldAnonymizer)
Parses(model, name) == model = "Account" /\ name \in {"number", "IBAN"}

\* the kind of field anonymizer: "rev" a reversible cipher, "hash" a one-way
\* anonymizer with is_reversible = False, "func" a FunctionFieldAnonymizer
\* without deanonymize_func
Codec(model, name) ==
    CASE model = "Customer" /\ name \in {"first_name", "last_name"} -> "hash"
      [] model = "Payment" /\ name = "secret_code" -> "func"
      [] OTHER -> "rev"

(***************************************************************************)
(* Sequences used as Python lists and insertion-ordered dicts.             *)
(***************************************************************************)
Range(s) == {s[i] : i \in DOMAIN s}

RECURSIVE Filter(_, _)
\* [x for x in s if x not in drop]
Filter(s, drop) ==
    IF s = <<>> THEN <<>>
    ELSE IF Head(s) \in drop THEN Filter(Tail(s), drop)
         ELSE <<Head(s)>> \o Filter(Tail(s), drop)

DictKeys(d) == {d[i].name : i \in DOMAIN d}
DictGet(d, k) == (CHOOSE i \in DOMAIN d : d[i].name = k)
\* d[k] = v of a dict: an existing key keeps its position
DictPut(d, k, v) ==
    IF k \in DictKeys(d)
    THEN [i \in DOMAIN d |-> IF d[i].name = k THEN [name |-> k, fields |-> v] ELSE d[i]]
    ELSE Append(d, [name |-> k, fields |-> v])

(***************************************************************************)
(* gdpr/fields.py: class Fields                                            *)
(***************************************************************************)
\* a parse_local_fields whose wildcard adds the known names to the listed ones
parse_local_fieldsUnion(fields, model) ==
    IF fields.bare THEN keys(model)
    ELSE LET strs == SelectSeq(fields.elems,
                               LAMBDA e : e.str /\ e.name # "__ALL__")
             listed == [i \in DOMAIN strs |-> strs[i].name]
         IN IF \E i \in DOMAIN fields.elems :
                   fields.elems[i].str /\ fields.elems[i].name = "__ALL__"
            THEN listed \o keys(model)
            ELSE listed

\* a parse_local_fields without the test type(field) == str
parse_local_fieldsNoFilter(fields, model) ==
    IF fields.bare
       \/ \E i \in DOMAIN fields.elems :
              fields.elems[i].str /\ fields.elems[i].name = "__ALL__"
    THEN keys(model)
    ELSE [i \in DOMAIN fields.elems |-> fields.elems[i].name]

\* Fields.parse_local_fields
parse_local_fields(fields, model) ==
    IF fields.bare
       \/ \E i \in DOMAIN fields.elems :
              fields.elems[i].str /\ fields.elems[i].name = "__ALL__"
    THEN keys(model)
    ELSE LET strs == SelectSeq(fields.elems, LAMBDA e : e.str)
         IN [i \in DOMAIN strs |-> strs[i].name]

RECURSIVE Fields(_, _)
RECURSIVE parse_related_from(_, _, _, _)
\* Fields.parse_related_fields, from element i on, out_dict built so far
parse_related_from(fields, model, i, out_dict) ==
    IF i > Len(fields.elems) THEN out_dict
    ELSE LET e == fields.elems[i]
         IN IF e.len # 2
            THEN parse_related_from(fields, model, i + 1, out_dict)
            ELSE parse_related_from(fields, model, i + 1,
                     DictPut(out_dict, e.name,
                             Fields(e.sub, get_related_model(model, e.name))))

parse_related_fields(fields, model) ==
    IF fields.bare THEN <<>> ELSE parse_related_from(fields, model, 1, <<>>)

RECURSIVE parse_exc(_, _, _)
\* the exception Fields.parse_related_fields raises from element i on: the
\* ValueError of unpacking a tuple that has not two elements, the
\* RuntimeError of get_related_model, or that of a nested Fields; "" if none
parse_exc(fields, model, i) ==
    IF fields.bare \/ i > Len(fields.elems) THEN ""
    ELSE LET e == fields.elems[i]
             related_model == get_related_model(model, e.name)
             nested == IF related_model = NoModel THEN "RuntimeError"
                       ELSE parse_exc(e.sub, related_model, 1)
         IN IF e.str \/ e.len = 0 THEN parse_exc(fields, model, i + 1)
            ELSE IF e.len # 2 THEN "ValueError"
            ELSE IF nested # "" THEN nested
            ELSE parse_exc(fields, model, i + 1)

\* Fields.__init__; exc names the exception the construction raises, err
\* tells that it raises
Fields(fields, model) ==
    LET rel == parse_related_fields(fields, model)
        exc == IF model = NoModel THEN "RuntimeError"
               ELSE parse_exc(fields, model, 1)
    IN [model |-> model,
        local |-> parse_local_fields(fields, model),
        related |-> rel,
        exc |-> exc,
        err |-> exc # ""]

\* a length that counts the local fields only
__len__LocalOnly(f) == Len(f.local)

\* Fields.__len__
__len__(f) == Len(f.local) + Len(f.related)

RECURSIVE __isub__(_, _)
\* a subtraction that keeps the relations it has emptied
__isub__NoPrune(self, other) ==
    [self EXCEPT
        !.local = Filter(self.local, Range(other.local)),
        !.related = [i \in DOMAIN self.related |->
            IF self.related[i].name \in DictKeys(other.related)
            THEN [name |-> self.related[i].name,
                  fields |-> __isub__(self.related[i].fields,
                                other.related[DictGet(other.related,
                                    self.related[i].name)].fields)]
            ELSE self.related[i]]]

\* a subtraction that does nothing once self has no local field
__isub__WhileLocal(self, other) ==
    IF self.local = <<>> THEN self
    ELSE LET sub == [i \in DOMAIN self.related |->
                        IF self.related[i].name \in DictKeys(other.related)
                        THEN [name |-> self.related[i].name,
                              fields |-> __isub__(self.related[i].fields,
                                  other.related[DictGet(other.related,
                                      self.related[i].name)].fields)]
                        ELSE self.related[i]]
         IN [self EXCEPT
                !.local = Filter(self.local, Range(other.local)),
                !.related = SelectSeq(sub,
                    LAMBDA r : Len(r.fields.local) + Len(r.fields.related)
                               # 0)]

\* Fields.__isub__: self -= other, the value of self afterwards
__isub__(self, other) ==
    LET local == Filter(self.local, Range(other.local))
        sub == [i \in DOMAIN self.related |->
                   IF self.related[i].name \in DictKeys(other.related)
                   THEN [name |-> self.related[i].name,
                         fields |-> __isub__(self.related[i].fields,
                                       other.related[DictGet(other.related,
                                           self.related[i].name)].fields)]
                   ELSE self.related[i]]
        kept == SelectSeq(sub, LAMBDA r : __len__(r.fields) # 0)
    IN [self EXCEPT !.local = local, !.related = kept]

(***************************************************************************)
(* The anonymization of objects.  A field value is one symbol of an        *)
(* alphabet of AlphabetLen symbols (0 .. AlphabetLen - 1) or NULL; a key   *)
(* is a number 1 .. KeyMod (a digest) and 0 stands for "no key".           *)
(***************************************************************************)
AlphabetLen == 3
KeyMod == 4
MaxBaseKey == 2
NULL == -1
NoKey == 0
NoObj == "-"
\* a value that CzechIBAN.parse and CzechAccountNumber.parse do not match
MALFORMED == -2

Objects == {"c1", "a1", "a2", "p1", "n1", "n2", "f1", "e1"}

ModelOf(o) ==
    CASE o = "c1" -> "Customer"
      [] o \in {"a1", "a2"} -> "Account"
      [] o = "p1" -> "Payment"
      [] o \in {"n1", "n2"} -> "Note"
      [] o = "f1" -> "ContactForm"
      [] o = "e1" -> "ChildE"

\* obj.pk
pk(o) ==
    CASE o \in {"c1", "a1", "p1", "n1", "f1", "e1"} -> 1
      [] o \in {"a2", "n2"} -> 2

\* the field values of the objects as they are created
OrigValue(o, name) ==
    CASE o = "c1" /\ name = "first_name" -> 1
      [] o = "c1" /\ name = "last_name" -> 0
      [] o = "c1" /\ name = "primary_email_address" -> 1
      [] o = "a1" /\ name = "number" -> 0
      [] o = "a1" /\ name = "IBAN" -> MALFORMED
      [] o = "a1" /\ name = "owner" -> 1
      [] o = "a2" /\ name = "number" -> 2
      [] o = "a2" /\ name = "IBAN" -> 1
      [] o = "a2" /\ name = "owner" -> NULL
      [] o = "p1" /\ name = "value" -> 1
      [] o = "p1" /\ name = "secret_code" -> 2
      [] o = "n1" /\ name = "note" -> 0
      [] o = "n2" /\ name = "note" -> 1
      [] o = "f1" /\ name = "email" -> 2
      [] o = "f1" /\ name = "full_name" -> 0
      [] o = "e1" /\ name = "first_name" -> 2
      [] o = "e1" /\ name = "last_name" -> 1

\* the reversion versions of the objects as they are created, oldest
\* first: the field dict of each; the last one is the object as it is
OrigVersions(o) ==
    IF o = "e1"
    THEN <<[first_name |-> 0, last_name |-> 1],
           [first_name |-> 2, last_name |-> NULL],
           [first_name |-> 2, last_name |-> 1]>>
    ELSE <<>>

Pairs == UNION {{<<o, n>> : n \in Range(keys(ModelOf(o)))} : o \in Objects}

\* the objects a relation of obj leads to, in the order the database
\* returns them
RelatedObjects(o, name) ==
    CASE o = "c1" /\ name = "accounts" -> <<"a1", "a2">>
      [] o = "c1" /\ name = "notes" -> <<"n1">>
      [] o = "a1" /\ name = "payments" -> <<"p1">>
      [] o = "n2" /\ name = "contact_form" -> <<"f1">>
      [] OTHER -> <<>>

\* on_delete=CASCADE: the objects deleted with obj
Cascade(o) == IF o = "a1" THEN {"a1", "p1"} ELSE {o}

AllNames == <<"first_name", "last_name", "primary_email_address", "number",
              "owner", "value", "secret_code", "note", "email", "full_name",
              "accounts", "notes", "payments", "contact_form", "IBAN">>
NameNo(name) == CHOOSE i \in DOMAIN AllNames : AllNames[i] = name

\* settings.GDPR_KEY or settings.SECRET_KEY
SECRET_KEY == 1

\* hashlib.sha256(...).hexdigest() of pk, base key, secret and field name
sha256(p, base, name) ==
    1 + ((p + base + SECRET_KEY + NameNo(name)) % KeyMod)

\* CustomerAnonymizer.get_encryption_key: derived from the object's own
\* current first_name, last_name and primary_email_address
CustomerKey(vals) ==
    1 + ((vals["first_name"] + 1) * (AlphabetLen + 1)
            + (vals["last_name"] + 1)) * (AlphabetLen + 1)
      + (vals["primary_email_address"] + 1)

\* a get_encryption_key that draws a random key for every anonymizer
get_encryption_keyRandom(st, o, base, rnd) == rnd

\* ModelAnonymizerBase.get_encryption_key; NoKey stands for the
\* NotImplementedError.  base is _base_encryption_key, rnd the outcome of
\* random.choices
get_encryption_key(st, o, base, rnd) ==
    IF ~is_reversible(ModelOf(o)) THEN rnd
    ELSE IF OverridesKey(ModelOf(o)) THEN CustomerKey(st.stored[o])
    ELSE base

_get_encryption_key(st, o, base, name, rnd) ==
    LET k == get_encryption_key(st, o, base, rnd)
    IN IF k = NoKey THEN NoKey ELSE sha256(pk(o), k, name)

\* the per-symbol shift of the Vigenere translation: the position of a
\* digest character in the alphabet, never 0
Shift(key) == 1 + (key % (AlphabetLen - 1))
encrypt(v, key) == (v + Shift(key)) % AlphabetLen
decrypt(v, key) == (v - Shift(key)) % AlphabetLen
\* the one-way anonymizers: a digest of the value
Hash(v) == (v * v + 1) % AlphabetLen

\* get_is_reversible of a function anonymizer that reports False instead of
\* raising
get_is_reversibleSilent(codec) == IF codec = "rev" THEN "yes" ELSE "no"

\* get_is_reversible that raises for every one-way anonymizer
get_is_reversibleStrict(codec) == IF codec = "rev" THEN "yes" ELSE "raise"

\* FieldAnonymizer.get_is_reversible: "yes", "no" or "raise"
get_is_reversible(codec) ==
    CASE codec = "rev" -> "yes"
      [] codec = "hash" -> "no"
      [] codec = "func" -> "raise"

get_is_value_empty(v) == v = NULL

\* CzechIBAN.parse / CzechAccountNumber.parse in get_encrypted_value and
\* get_decrypted_value: a ValidationError for a value that does not match
parse_raises(model, name, v) ==
    Parses(model, name) /\ ~get_is_value_empty(v) /\ v = MALFORMED

get_encrypted_value(codec, v, key) ==
    IF codec = "rev" THEN encrypt(v, key) ELSE Hash(v)

\* FieldAnonymizer.get_value_from_obj
get_value_from_obj(codec, v, key, anonymization) ==
    IF get_is_value_empty(v) THEN v
    ELSE IF anonymization THEN get_encrypted_value(codec, v, key)
    ELSE decrypt(v, key)

(***************************************************************************)
(* The storage st is a record: stored (the field values), markers (the     *)
(* active AnonymizedData records, as <<object, field>>), alive (the        *)
(* objects that exist), versions (the field dicts of the reversion         *)
(* versions of each object) and two history fields: anonKey (the key each  *)
(* marker's value was encrypted with) and tainted (the fields that were    *)
(* decrypted with another key than the one they were encrypted with).      *)
(* An invocation of update_obj is a frame; the frames still to run form a  *)
(* stack in the order in which the code runs them.                         *)
(***************************************************************************)
InitialStorage ==
    [stored |-> [o \in Objects |->
                    [n \in Range(keys(ModelOf(o))) |-> OrigValue(o, n)]],
     markers |-> {},
     alive |-> Objects,
     versions |-> [o \in Objects |-> OrigVersions(o)],
     anonKey |-> [p \in Pairs |-> NoKey],
     tainted |-> {}]

Frame(kind, o, name, F, ctor, base, anonymization, parent) ==
    [kind |-> kind, obj |-> o, name |-> name, fields |-> F, ctor |-> ctor,
     base |-> base, anon |-> anonymization, parent |-> parent]

is_field_anonymized(st, o, name) == <<o, name>> \in st.markers

\* the outcome of one step: the storage afterwards, the frames it pushes,
\* whether it raised, and whether it committed a write
Outcome(st, push, raised, wrote) ==
    [st |-> st, push |-> push, raised |-> raised, wrote |-> wrote]

\* update_related_fields, up to the fetch of every relation: one frame per
\* relation; base is the _base_encryption_key of the anonymizer
RelationFrames(fr, base) ==
    [i \in DOMAIN fr.fields.related |->
        Frame("rel", fr.obj, fr.fields.related[i].name,
              fr.fields.related[i].fields, NoKey, base, fr.anon, fr.parent)]

\* raw_local_fields without the check of the markers on anonymization
raw_local_fieldsAll(st, fr) ==
    IF fr.anon THEN fr.fields.local
    ELSE SelectSeq(fr.fields.local,
                   LAMBDA n : is_field_anonymized(st, fr.obj, n)
                       /\ get_is_reversible(Codec(ModelOf(fr.obj), n)) = "yes")

\* update_obj, line 446-449: the local fields the call will write
raw_local_fields(st, fr) ==
    IF fr.anon
    THEN SelectSeq(fr.fields.local,
                   LAMBDA n : ~is_field_anonymized(st, fr.obj, n))
    ELSE SelectSeq(fr.fields.local,
                   LAMBDA n : is_field_anonymized(st, fr.obj, n)
                       /\ get_is_reversible(Codec(ModelOf(fr.obj), n)) = "yes")

\* perform_update without the marker update (a write outside the
\* transaction)
perform_updateNoMarker(st, o, keyOf, anonymization) ==
    [st EXCEPT
       !.stored[o] = [n \in DOMAIN @ |->
           IF n \in DOMAIN keyOf
           THEN get_value_from_obj(Codec(ModelOf(o), n), @[n], keyOf[n],
                                   anonymization)
           ELSE @[n]]]

\* perform_update: the values and the markers written in one transaction;
\* keyOf maps every field of the batch to its encryption key
perform_update(st, o, keyOf, anonymization) ==
    LET m == ModelOf(o)
        names == DOMAIN keyOf
    IN [st EXCEPT
          !.stored[o] = [n \in DOMAIN @ |->
              IF n \in names
              THEN get_value_from_obj(Codec(m, n), @[n], keyOf[n],
                                      anonymization)
              ELSE @[n]],
          !.markers = IF anonymization THEN @ \cup {<<o, n>> : n \in names}
                      ELSE @ \ {<<o, n>> : n \in names},
          !.anonKey = [p \in Pairs |->
              IF p[1] = o /\ p[2] \in names
              THEN (IF anonymization THEN keyOf[p[2]] ELSE NoKey)
              ELSE @[p]],
          !.tainted = IF anonymization THEN @
                      ELSE @ \cup {<<o, n>> : n \in
                                     {x \in names :
                                        st.anonKey[<<o, x>>] # keyOf[x]}}]

\* an update that leaves the versions as they are
perform_version_updateNone(st, o, keyOf, anonymization) == st

\* _perform_version_update of every version: the fields of the batch are
\* translated in the version's field dict, with the key of the field
perform_version_update(st, o, keyOf, anonymization) ==
    [st EXCEPT
       !.versions[o] = [i \in DOMAIN @ |-> [n \in DOMAIN @[i] |->
           IF n \in DOMAIN keyOf
           THEN get_value_from_obj(Codec(ModelOf(o), n), @[i][n], keyOf[n],
                                   anonymization)
           ELSE @[i][n]]]]

\* perform_update_with_version: the versions first, then the object and its
\* markers, in one transaction
perform_update_with_version(st, o, keyOf, anonymization) ==
    perform_update(perform_version_update(st, o, keyOf, anonymization),
                   o, keyOf, anonymization)

\* _base_encryption_key after update_obj, line 440-441
BaseKeyOf(fr) == IF fr.base # NoKey THEN fr.base ELSE fr.ctor

\* update_obj, line 452-470: the computation of update_dict or of
\* versions_update_dict raises a ValidationError
compute_raises(st, fr) ==
    LET o == fr.obj
        m == ModelOf(o)
        raw == raw_local_fields(st, fr)
    IN \/ \E i \in DOMAIN raw :
             /\ raw[i] \in Range(keys(m))
             /\ parse_raises(m, raw[i], st.stored[o][raw[i]])
       \/ /\ anonymize_reversion(m)
          /\ \E i \in DOMAIN raw, j \in DOMAIN st.versions[o] :
                /\ raw[i] \in Range(keys(m))
                /\ parse_raises(m, raw[i], st.versions[o][j][raw[i]])

\* an update_obj that writes every field as soon as its value is computed:
\* the fields before the one that raises are written and marked
update_dict_raisesKeepsEarlier(st, fr, keyOf) ==
    LET o == fr.obj
        m == ModelOf(o)
        raw == raw_local_fields(st, fr)
        bad == {i \in DOMAIN raw :
                   parse_raises(m, raw[i], st.stored[o][raw[i]])}
        first == IF bad = {} THEN Len(raw) + 1
                 ELSE CHOOSE i \in bad : \A j \in bad : i <= j
        earlier == {raw[i] : i \in 1..(first - 1)}
    IN Outcome(perform_update(st, o, [n \in earlier |-> keyOf[n]], fr.anon),
               <<>>, TRUE, FALSE)

\* update_obj, line 452-470, when a computation raises: the exception leaves
\* update_obj before perform_update is called
update_dict_raises(st, fr, keyOf) == Outcome(st, <<>>, TRUE, FALSE)

\* ModelAnonymizerBase.update_obj, line 437-476: the checks, the computation
\* of the new values and the commit of the object's own local fields
LocalBatch(st, fr, rnd) ==
    LET o == fr.obj
        m == ModelOf(o)
        raw == raw_local_fields(st, fr)
        keyOf(n) == _get_encryption_key(st, o, BaseKeyOf(fr), n, rnd[n])
        raises ==
            \/ ~fr.anon /\ ~is_reversible(m)
            \/ fr.fields.err
            \/ ~fr.anon /\ \E i \in DOMAIN fr.fields.local :
                  /\ is_field_anonymized(st, o, fr.fields.local[i])
                  /\ get_is_reversible(Codec(m, fr.fields.local[i])) = "raise"
            \/ \E i \in DOMAIN raw : raw[i] \notin Range(keys(m))
            \/ \E i \in DOMAIN raw : keyOf(raw[i]) = NoKey
        keys_dict == [n \in Range(raw) |-> keyOf(n)]
    IN IF raises THEN Outcome(st, <<>>, TRUE, FALSE)
       ELSE IF compute_raises(st, fr) THEN update_dict_raises(st, fr, keys_dict)
       ELSE Outcome(IF raw = <<>> THEN st
                    ELSE IF anonymize_reversion(m)
                    THEN perform_update_with_version(st, o, keys_dict,
                                                     fr.anon)
                    ELSE perform_update(st, o, keys_dict, fr.anon),
                    <<>>, FALSE, raw # <<>>)

\* update_obj with update_related_fields inside `if raw_local_fields:`
ModelAnonymizerBase_update_objRelatedInsideIf(st, fr, rnd) ==
    LET out == LocalBatch(st, fr, rnd)
    IN IF out.raised \/ ~out.wrote THEN out
       ELSE [out EXCEPT !.push = RelationFrames(fr, BaseKeyOf(fr))]

\* update_obj with update_related_fields before the object's own batch
ModelAnonymizerBase_update_objRelatedFirst(st, fr, rnd) ==
    IF fr.fields.related = <<>> THEN LocalBatch(st, fr, rnd)
    ELSE Outcome(st,
                 RelationFrames(fr, BaseKeyOf(fr)) \o
                    <<[fr EXCEPT !.fields.related = <<>>]>>,
                 FALSE, FALSE)

\* ModelAnonymizerBase.update_obj up to the fetch of the relations: the
\* object's own batch, then update_related_fields
ModelAnonymizerBase_update_obj(st, fr, rnd) ==
    LET out == LocalBatch(st, fr, rnd)
    IN IF out.raised THEN out
       ELSE [out EXCEPT !.push = RelationFrames(fr, BaseKeyOf(fr))]

\* DeleteModelAnonymizer.update_obj up to the deletion of the object
DeleteModelAnonymizer_update_obj(st, fr, rnd) ==
    IF fr.fields.err THEN Outcome(st, <<>>, TRUE, FALSE)
    ELSE IF DELETE_FIELD_NAME \in Range(fr.fields.local) /\ fr.anon
    THEN Outcome(st,
                 RelationFrames(fr, fr.ctor) \o
                    <<Frame("del", fr.obj, "", fr.fields, fr.ctor, fr.base,
                            fr.anon, fr.parent)>>,
                 FALSE, FALSE)
    ELSE ModelAnonymizerBase_update_obj(st,
            [fr EXCEPT !.fields.local = Filter(@, {DELETE_FIELD_NAME})], rnd)

\* anonymizer.update_obj of the anonymizer registered for the model
update_obj(st, fr, rnd) ==
    IF IsDeleteModelAnonymizer(ModelOf(fr.obj))
    THEN DeleteModelAnonymizer_update_obj(st, fr, rnd)
    ELSE ModelAnonymizerBase_update_obj(st, fr, rnd)

\* update_related_anonymizer_fields / update_related_model_fields: the
\* related objects are fetched and update_obj is called on each with the
\* key derived from the parent object and the relation's name
update_related_fields(st, fr, rnd) ==
    LET objs == SelectSeq(RelatedObjects(fr.obj, fr.name),
                          LAMBDA r : r \in st.alive)
        key == _get_encryption_key(st, fr.obj, fr.base, fr.name,
                                   rnd[fr.name])
    IN IF objs = <<>> THEN Outcome(st, <<>>, FALSE, FALSE)
       ELSE IF key = NoKey THEN Outcome(st, <<>>, TRUE, FALSE)
       ELSE Outcome(st,
                    [i \in DOMAIN objs |->
                        Frame("obj", objs[i], "", fr.fields, NoKey, key,
                              fr.anon, fr.obj)],
                    FALSE, FALSE)

\* obj.__class__.objects.filter(pk=obj.pk).delete(): the object and what
\* cascades from it are deleted; their AnonymizedData records stay
delete(st, fr) ==
    Outcome([st EXCEPT
                !.alive = @ \ Cascade(fr.obj),
                !.versions[fr.obj] =
                    IF anonymize_reversion(ModelOf(fr.obj)) THEN <<>> ELSE @],
            <<>>, FALSE, TRUE)

\* one step of the call: the frame on top of the stack runs
RunFrame(st, fr, rnd) ==
    CASE fr.kind = "obj" -> update_obj(st, fr, rnd)
      [] fr.kind = "rel" -> update_related_fields(st, fr, rnd)
      [] fr.kind = "del" -> delete(st, fr)

(***************************************************************************)
(* Purposes and legal reasons.  A field matrix is filtered against the     *)
(* matrices of the other active legal reasons as AbstractPurpose does it,  *)
(* on the matrices themselves.                                             *)
(***************************************************************************)
Strings(names) == [i \in DOMAIN names |-> S(names[i])]

\* len() of a matrix: the number of its elements, of the string '__ALL__'
\* its number of characters
MatrixLen(fields) == IF fields.bare THEN 7 ELSE Len(fields.elems)

\* AbstractPurpose.get_local_fields
get_local_fields(model, fields) ==
    IF fields.bare THEN keys(model)
    ELSE LET strs == SelectSeq(fields.elems, LAMBDA e : e.str)
             local_fields == [i \in DOMAIN strs |-> strs[i].name]
         IN IF "__ALL__" \in Range(local_fields) THEN keys(model)
            ELSE local_fields

RECURSIVE related_from(_, _, _)
related_from(elems, i, out_dict) ==
    IF i > Len(elems) THEN out_dict
    ELSE related_from(elems, i + 1,
             IF elems[i].len = 0 THEN out_dict
             ELSE DictPut(out_dict, elems[i].name, elems[i].sub))

\* AbstractPurpose.get_related_fields: the dict of the nested matrices
get_related_fields(fields) ==
    IF fields.bare THEN <<>> ELSE related_from(fields.elems, 1, <<>>)

\* the exception of get_local_fields (an element that is no string, list or
\* tuple) or of get_related_fields (a tuple that has not two elements)
split_fields_exc(fields) ==
    IF ~fields.bare /\ \E i \in DOMAIN fields.elems :
           LET e == fields.elems[i]
           IN (~e.str /\ e.len = 0) \/ (e.len # 0 /\ e.len # 2)
    THEN "ImproperlyConfigured" ELSE ""

\* AbstractPurpose.split_fields
split_fields(fields, model) ==
    [local |-> get_local_fields(model, fields),
     related |-> get_related_fields(fields)]

\* AbstractPurpose.filter_local_fields
filter_local_fields(local, others) ==
    Filter(local, UNION {Range(others[j].local) : j \in DOMAIN others})

RECURSIVE get_filtered_fields(_, _, _)
\* get_filtered_fields without the filter of the nested matrices
get_filtered_fieldsLocalOnly(model, fields, other_fields) ==
    LET split == split_fields(fields, model)
        others == [j \in DOMAIN other_fields |->
                      split_fields(other_fields[j], model)]
        related == SelectSeq(split.related,
                             LAMBDA r : MatrixLen(r.fields) > 0)
    IN Tup(Strings(filter_local_fields(split.local, others)) \o
           [i \in DOMAIN related |-> R(related[i].name, related[i].fields)])

\* AbstractPurpose.get_filtered_fields with filter_related_fields: the
\* matrix of what fields names and no matrix of other_fields names
get_filtered_fields(model, fields, other_fields) ==
    LET split == split_fields(fields, model)
        others == [j \in DOMAIN other_fields |->
                      split_fields(other_fields[j], model)]
        others_related_keys ==
            UNION {DictKeys(others[j].related) : j \in DOMAIN others}
        holders(k) == SelectSeq(others, LAMBDA o : k \in DictKeys(o.related))
        others_actual(k) ==
            [j \in DOMAIN holders(k) |->
                holders(k)[j].related[DictGet(holders(k)[j].related, k)].fields]
        filtered ==
            [i \in DOMAIN split.related |->
                IF split.related[i].name \notin others_related_keys
                THEN split.related[i]
                ELSE [name |-> split.related[i].name,
                      fields |-> get_filtered_fields(
                          get_related_model(model, split.related[i].name),
                          split.related[i].fields,
                          others_actual(split.related[i].name))]]
        related == SelectSeq(filtered, LAMBDA r : MatrixLen(r.fields) > 0)
    IN Tup(Strings(filter_local_fields(split.local, others)) \o
           [i \in DOMAIN related |-> R(related[i].name, related[i].fields)])

\* the purposes the customer's legal reasons are created for, by slug
Purposes == <<"FNL", "FNE", "PEA", "ACC", "ACP">>

\* AbstractPurpose.fields of the purpose
PurposeFields(slug) ==
    CASE slug = "FNL" -> Tup(Strings(<<"first_name", "last_name">>))
      [] slug = "FNE" ->
            Tup(Strings(<<"first_name", "primary_email_address">>))
      [] slug = "PEA" -> Tup(Strings(<<"primary_email_address">>))
      [] slug = "ACC" ->
            Tup(<<R("accounts", Tup(Strings(<<"number", "owner">>)))>>)
      [] slug = "ACP" ->
            Tup(<<R("accounts",
                    Tup(Strings(<<"number", "owner">>) \o
                        <<R("payments", Tup(Strings(<<"value">>)))>>))>>)
      [] slug = "EIB" ->
            Tup(<<S("primary_email_address"),
                  R("accounts", Tup(Strings(<<"owner", "IBAN">>)))>>)

\* purpose_register: these purposes and one that names the IBAN of the
\* accounts, in the order of registration; the customer has legal reasons
\* for the purposes of the domain of rs below
RegisteredPurposes == Purposes \o <<"EIB">>

\* AbstractPurpose.expiration_timedelta of the purpose, in units of time
\* (the longer of two periods is not the shorter here)
expiration_timedelta(slug) ==
    IF slug \in {"FNL", "ACP"} THEN 2 ELSE 1

\* LegalReason.is_active
is_active(state) == state = "ACTIVE"

\* the other legal reasons of the object in whatever state, as the
\* matrices of their purposes
allowed_field_matricesAnyState(rs, slug) ==
    LET others == SelectSeq(RegisteredPurposes,
                            LAMBDA s : s \in DOMAIN rs /\ s # slug
                                       /\ rs[s] # "none")
    IN [j \in DOMAIN others |-> PurposeFields(others[j])]

\* the other legal reasons of the object that are active, as the matrices
\* of their purposes
allowed_field_matrices(rs, slug) ==
    LET others == SelectSeq(RegisteredPurposes,
                            LAMBDA s : s \in DOMAIN rs /\ s # slug
                                       /\ is_active(rs[s]))
    IN [j \in DOMAIN others |-> PurposeFields(others[j])]

\* AbstractPurpose.anonymize_obj: the matrix handed to the anonymizer
PurposeMatrix(rs, slug) ==
    IF allowed_field_matrices(rs, slug) = <<>> THEN PurposeFields(slug)
    ELSE get_filtered_fields("Customer", PurposeFields(slug),
                             allowed_field_matrices(rs, slug))

(***************************************************************************)
(* Spec: calls of anonymize_obj and deanonymize_obj on the objects, run    *)
(* one update_obj invocation at a time; a call may be interrupted between  *)
(* two steps and a commit may fail.                                        *)
(***************************************************************************)
MaxCalls == 2

\* the field matrices the calls are made with
Selection(id) ==
    CASE id = "tree" ->
            Tup(<<R("accounts",
                    Tup(Strings(<<"number", "owner">>) \o
                        <<R("payments", Tup(Strings(<<"value">>)))>>)),
                  R("notes", ALL)>>)
      [] id = "mixed" ->
            Tup(<<S("first_name"), S("primary_email_address"),
                  R("accounts", Tup(Strings(<<"number">>)))>>)
      [] id = "email" -> Tup(Strings(<<"primary_email_address">>))
      [] id = "acct" ->
            Tup(<<S("number"),
                  R("payments", Tup(Strings(<<"value", "secret_code">>)))>>)
      [] id = "self" ->
            Tup(<<S(DELETE_FIELD_NAME),
                  R("payments", Tup(Strings(<<"value">>)))>>)
      [] id = "form" -> Tup(<<S("note"), R("contact_form", ALL)>>)
      [] id = "all" -> ALL
      [] id = "iban" -> Tup(Strings(<<"owner", "IBAN">>))
      [] id = "ibans" ->
            Tup(<<S("primary_email_address"),
                  R("accounts", Tup(Strings(<<"owner", "IBAN">>)))>>)
      [] id = "names" -> Tup(Strings(<<"first_name", "last_name">>))
      [] id = "ghost" ->
            Tup(<<S("primary_email_address"),
                  R("ghost", Tup(Strings(<<"x">>))),
                  R("notes", ALL)>>)

\* a call: the root object, the matrix, the key given to the anonymizer's
\* constructor, the key given to the call, and the direction
Call(root, id, ctor, base, anonymization) ==
    [root |-> root, sel |-> id, ctor |-> ctor, base |-> base,
     anon |-> anonymization,
     op |-> IF anonymization THEN "anonymize_obj" ELSE "deanonymize_obj"]
NoCall == Call(NoObj, "", NoKey, NoKey, TRUE)

BaseKeys == 1..MaxBaseKey

\* the calls made: on the customer (whose anonymizer derives its own key),
\* on an account with and without a key, with the key given to the call or
\* to the constructor, on a note and on a contact form
Calls ==
    {Call("c1", id, NoKey, NoKey, a) :
        id \in {"tree", "mixed", "email"}, a \in BOOLEAN}
    \cup {Call("a1", "acct", NoKey, k, a) :
            k \in {NoKey} \cup BaseKeys, a \in BOOLEAN}
    \cup {Call("a1", "self", 1, NoKey, a) : a \in BOOLEAN}
    \cup {Call("a1", "self", NoKey, 1, TRUE)}
    \cup {Call("n2", "form", NoKey, 1, a) : a \in BOOLEAN}
    \cup {Call("f1", "all", NoKey, NoKey, a) : a \in BOOLEAN}

RootFrame(c) ==
    Frame("obj", c.root, "", Fields(Selection(c.sel), ModelOf(c.root)),
          c.ctor, c.base, c.anon, NoObj)

\* the outcomes of random.choices for the fields of an object whose
\* anonymizer is not reversible; a fixed key otherwise (never used)
RandomKeys(o) ==
    IF is_reversible(ModelOf(o)) THEN {[n \in Range(AllNames) |-> NoKey]}
    ELSE {[n \in Range(AllNames) |->
              IF n \in Range(keys(ModelOf(o))) THEN r[n] ELSE 1] :
            r \in [Range(keys(ModelOf(o))) -> BaseKeys]}

\* what a call has done: the objects whose own write is committed, the
\* objects whose own write is their deletion, the writes as <<parent, object,
\* parent's own write committed before>>, and the object whose commit failed
NoTrace == [done |-> {}, deleting |-> {}, touched |-> {}, failedAt |-> NoObj]

vars == <<fA, fB, fOut, fpc, db, stack, cur, result, prev, snap, snapPrev,
          trace, ncalls, reasons, procs, arg, ret, expires_at, now>>
varsF == <<fA, fB, fOut, fpc>>
varsT == <<expires_at, now>>
varsX == <<procs, arg, ret, varsT>>
NoRet == [done |-> FALSE]
varsCalls == <<db, stack, cur, result, prev, snap, snapPrev, trace, ncalls,
               reasons>>

\* no call was made, no legal reason exists, the clock is at 0
NoCalls ==
    /\ db = InitialStorage
    /\ stack = <<>>
    /\ cur = NoCall
    /\ result = "none"
    /\ prev = [call |-> NoCall, result |-> "none"]
    /\ snap = InitialStorage
    /\ snapPrev = InitialStorage
    /\ trace = NoTrace
    /\ ncalls = 0
    /\ reasons = [s \in Range(Purposes) |-> "none"]
    /\ expires_at = [s \in Range(Purposes) |-> 0]
    /\ now = 0

Idle ==
    /\ NoCalls
    /\ procs = <<>>
    /\ arg = <<>>
    /\ ret = NoRet

Init ==
    /\ fA = EmptyM
    /\ fB = EmptyM
    /\ fOut = Fields(EmptyM, "T")
    /\ fpc = "off"
    /\ Idle

StartCall(c) ==
    /\ result # "running"
    /\ ncalls < MaxCalls
    /\ c.root \in db.alive
    /\ cur' = c
    /\ prev' = [call |-> cur, result |-> result]
    /\ snap' = db
    /\ snapPrev' = snap
    /\ stack' = <<RootFrame(c)>>
    /\ result' = "running"
    /\ trace' = NoTrace
    /\ ncalls' = ncalls + 1
    /\ UNCHANGED <<db, reasons, varsF, varsX>>

\* anonymizer.anonymize_obj(obj, fields=..., base_encryption_key=...)
anonymize_obj == \E c \in Calls : c.anon /\ StartCall(c)

\* anonymizer.deanonymize_obj(obj, fields=..., base_encryption_key=...)
deanonymize_obj == \E c \in Calls : ~c.anon /\ StartCall(c)

\* the step leaves the object's own write for a later frame
OwnPending(fr, out) ==
    \E i \in DOMAIN out.push :
       out.push[i].obj = fr.obj /\ out.push[i].kind \in {"obj", "del"}

\* the frame on top of the stack has run with outcome out
Advance(fr, out) ==
    /\ db' = out.st
    /\ stack' = IF out.raised THEN <<>> ELSE out.push \o Tail(stack)
    /\ result' = IF out.raised THEN "raised"
                 ELSE IF stack' = <<>> THEN "ok" ELSE "running"
    /\ trace' = [trace EXCEPT
          !.done = IF out.raised \/ OwnPending(fr, out) \/ fr.kind = "rel"
                   THEN @ ELSE @ \cup {fr.obj},
          !.deleting = IF \E i \in DOMAIN out.push : out.push[i].kind = "del"
                       THEN @ \cup {fr.obj} ELSE @,
          !.touched = IF out.wrote
                      THEN @ \cup {<<fr.parent, fr.obj,
                                     fr.parent \in trace.done>>}
                      ELSE @]
    /\ UNCHANGED <<cur, prev, snap, snapPrev, ncalls, reasons, varsF, varsX>>

Running(kind) ==
    /\ result = "running"
    /\ stack # <<>>
    /\ Head(stack).kind = kind

\* update_obj runs on the object of the top frame
UpdateObj ==
    /\ Running("obj")
    /\ \E rnd \in RandomKeys(Head(stack).obj) :
          Advance(Head(stack), update_obj(db, Head(stack), rnd))

\* the related objects of one relation are fetched
UpdateRelated ==
    /\ Running("rel")
    /\ \E rnd \in RandomKeys(Head(stack).obj) :
          Advance(Head(stack), update_related_fields(db, Head(stack), rnd))

\* DeleteModelAnonymizer deletes the object after its relations
DeleteObj ==
    /\ Running("del")
    /\ Advance(Head(stack), delete(db, Head(stack)))

\* the top frame would commit a write
Commits(fr) ==
    \/ fr.kind = "del"
    \/ fr.kind = "obj" /\ \E rnd \in RandomKeys(fr.obj) :
                             update_obj(db, fr, rnd).wrote

\* the storage fails the commit of the top frame: nothing of it is written
\* and the error ends the call
CommitFails ==
    /\ result = "running"
    /\ stack # <<>>
    /\ Commits(Head(stack))
    /\ stack' = <<>>
    /\ result' = "raised"
    /\ trace' = [trace EXCEPT !.failedAt = Head(stack).obj]
    /\ UNCHANGED <<db, cur, prev, snap, snapPrev, ncalls, reasons, varsF, varsX>>

\* the process dies between two steps of the call
Interrupt ==
    /\ result = "running"
    /\ stack' = <<>>
    /\ result' = "interrupted"
    /\ UNCHANGED <<db, cur, prev, snap, snapPrev, trace, ncalls, reasons,
                   varsF, varsX>>

Next ==
    \/ anonymize_obj
    \/ deanonymize_obj
    \/ UpdateObj
    \/ UpdateRelated
    \/ DeleteObj
    \/ CommitFails
    \/ Interrupt

Spec == Init /\ [][Next]_vars

(***************************************************************************)
(* SpecBatch: the same steps for calls whose batch holds a value the field *)
(* anonymizer cannot parse, and for calls on an object with reversion      *)
(* versions.                                                               *)
(***************************************************************************)
BatchCalls ==
    {Call("a1", "iban", NoKey, k, a) : k \in BaseKeys, a \in BOOLEAN}
    \cup {Call("c1", "ibans", NoKey, NoKey, a) : a \in BOOLEAN}
    \cup {Call("e1", "names", NoKey, k, a) : k \in BaseKeys, a \in BOOLEAN}
    \cup {Call("c1", "ghost", NoKey, NoKey, a) : a \in BOOLEAN}

anonymize_objBatch == \E c \in BatchCalls : c.anon /\ StartCall(c)

deanonymize_objBatch == \E c \in BatchCalls : ~c.anon /\ StartCall(c)

NextBatch ==
    \/ anonymize_objBatch
    \/ deanonymize_objBatch
    \/ UpdateObj
    \/ UpdateRelated
    \/ CommitFails
    \/ Interrupt

SpecBatch == Init /\ [][NextBatch]_vars

TypeOK ==
    /\ result \in {"none", "running", "ok", "raised", "interrupted"}
    /\ db.alive \subseteq Objects
    /\ db.markers \subseteq Pairs
    /\ db.tainted \subseteq Pairs
    /\ ncalls \in 0..MaxCalls
    /\ \A slug \in Range(Purposes) :
          reasons[slug] \in {"none", "ACTIVE", "EXPIRED", "DEACTIVATED"}

(***************************************************************************)
(* SpecReasons: the legal reasons of the customer are created, expired,    *)
(* deactivated and renewed.  Each of these runs in one transaction: it     *)
(* commits as a whole or not at all.                                       *)
(***************************************************************************)
RECURSIVE RunAll(_, _, _)
\* the call run to its end without interruption
RunAll(st, frames, rnd) ==
    IF frames = <<>> THEN [st |-> st, raised |-> FALSE]
    ELSE LET out == RunFrame(st, Head(frames), rnd)
         IN IF out.raised THEN [st |-> out.st, raised |-> TRUE]
            ELSE RunAll(out.st, out.push \o Tail(frames), rnd)

ReasonCall(op, slug) ==
    [root |-> "c1", sel |-> slug, ctor |-> NoKey, base |-> NoKey,
     anon |-> op # "renew", op |-> op]

\* the anonymizer is called on the source object with the matrix
PurposeFrame(matrix, anonymization) ==
    Frame("obj", "c1", "", Fields(matrix, "Customer"), NoKey, NoKey,
          anonymization, NoObj)

\* AbstractPurpose.anonymize_obj(source_object, legal_reason)
Purpose_anonymize_obj(st, rs, slug) ==
    RunAll(st, <<PurposeFrame(PurposeMatrix(rs, slug), TRUE)>>,
           CHOOSE rnd \in RandomKeys("c1") : TRUE)

\* AbstractPurpose.deanonymize_obj(source_object): the anonymizer
\* deanonymizes the fields of the purpose
Purpose_deanonymize_obj(st, slug) ==
    RunAll(st, <<PurposeFrame(PurposeFields(slug), FALSE)>>,
           CHOOSE rnd \in RandomKeys("c1") : TRUE)

InitReasons == Init

\* LegalReason.objects.create_consent(purpose_slug, source_object)
create_consent ==
    \E slug \in Range(Purposes) :
       /\ reasons[slug] # "ACTIVE"
       /\ reasons' = [reasons EXCEPT ![slug] = "ACTIVE"]
       /\ expires_at' = [expires_at EXCEPT
                            ![slug] = now + expiration_timedelta(slug)]
       /\ cur' = ReasonCall("create_consent", slug)
       /\ prev' = [call |-> NoCall, result |-> "none"]
       /\ snap' = db
       /\ snapPrev' = db
       /\ result' = "ok"
       /\ trace' = NoTrace
       /\ UNCHANGED <<db, stack, ncalls, varsF, procs, arg, ret, now>>

\* a method that runs without a transaction: what the anonymizer wrote
\* before the exception stays
TransactionNoRollback(op, slug, run, state, expires) ==
    /\ ncalls < MaxCalls
    /\ reasons[slug] # "none"
    /\ cur' = ReasonCall(op, slug)
    /\ prev' = [call |-> cur, result |-> result]
    /\ snap' = db
    /\ snapPrev' = snap
    /\ ncalls' = ncalls + 1
    /\ db' = run.st
    /\ IF run.raised
       THEN /\ reasons' = reasons
            /\ expires_at' = expires_at
            /\ result' = "raised"
       ELSE /\ reasons' = [reasons EXCEPT ![slug] = state]
            /\ expires_at' = [expires_at EXCEPT ![slug] = expires]
            /\ result' = "ok"
    /\ trace' = NoTrace
    /\ UNCHANGED <<stack, varsF, procs, arg, ret, now>>

\* one method of a legal reason ran in its transaction: run is the outcome
\* of the anonymizer, state the state the method sets; an exception leaves
\* the transaction and everything it wrote is rolled back
Transaction(op, slug, run, state, expires) ==
    /\ ncalls < MaxCalls
    /\ reasons[slug] # "none"
    /\ cur' = ReasonCall(op, slug)
    /\ prev' = [call |-> cur, result |-> result]
    /\ snap' = db
    /\ snapPrev' = snap
    /\ ncalls' = ncalls + 1
    /\ IF run.raised
       THEN /\ db' = db
            /\ reasons' = reasons
            /\ expires_at' = expires_at
            /\ result' = "raised"
       ELSE /\ db' = run.st
            /\ reasons' = [reasons EXCEPT ![slug] = state]
            /\ expires_at' = [expires_at EXCEPT ![slug] = expires]
            /\ result' = "ok"
    /\ trace' = NoTrace
    /\ UNCHANGED <<stack, varsF, procs, arg, ret, now>>

\* LegalReason.expire
expire ==
    \E slug \in Range(Purposes) :
       Transaction("expire", slug, Purpose_anonymize_obj(db, reasons, slug),
                   "EXPIRED", expires_at[slug])

\* LegalReason.deactivate
deactivate ==
    \E slug \in Range(Purposes) :
       Transaction("deactivate", slug,
                   Purpose_anonymize_obj(db, reasons, slug), "DEACTIVATED",
                   expires_at[slug])

\* LegalReason.renew
renew ==
    \E slug \in Range(Purposes) :
       Transaction("renew", slug, Purpose_deanonymize_obj(db, slug), "ACTIVE",
                   now + expiration_timedelta(slug))

NextReasons == create_consent \/ expire \/ deactivate \/ renew

SpecReasons == InitReasons /\ [][NextReasons]_vars

(***************************************************************************)
(* SpecFields: the subtraction applied to every pair of matrices over the  *)
(* generic model T (local names and the relations r and s, nested).        *)
(***************************************************************************)
MaxNames == 2

RECURSIVE SubSeqs(_)
\* the order-preserving sub-sequences of s
SubSeqs(s) ==
    IF s = <<>> THEN {<<>>}
    ELSE LET rest == SubSeqs(Tail(s))
         IN rest \cup {<<Head(s)>> \o t : t \in rest}

Strs(names) == Tup([i \in DOMAIN names |-> S(names[i])])
TopNames == SubSeq(<<"a", "b", "y">>, 1, MaxNames)
NestedNames == SubSeq(<<"x", "y", "a">>, 1, MaxNames)
TopLocals == SubSeqs(TopNames) \cup {<<TopNames[MaxNames], TopNames[1]>>}
InnerMatrices == {EmptyM, Strs(<<NestedNames[1]>>)}
NestedMatrices ==
    {ALL} \cup
    {Tup(Strs(l).elems \o rs) :
        l \in SubSeqs(NestedNames),
        rs \in {<<>>} \cup {<<R("s", m)>> : m \in InnerMatrices}}
MatricesT ==
    {Tup(Strs(l).elems \o rs) :
        l \in TopLocals,
        rs \in {<<>>} \cup {<<R("r", m)>> : m \in NestedMatrices}}

InitFields ==
    /\ fA \in MatricesT
    /\ fB \in MatricesT
    /\ fOut = Fields(fA, "T")
    /\ fpc = "init"
    /\ Idle

\* A -= B on the two parsed selections
Subtract ==
    /\ fpc = "init"
    /\ fOut' = __isub__(fOut, Fields(fB, "T"))
    /\ fpc' = "done"
    /\ UNCHANGED <<fA, fB, varsCalls, varsX>>

NextFields == Subtract

SpecFields == InitFields /\ [][NextFields]_vars

(***************************************************************************)
(* Properties of the subtraction (SpecFields)                              *)
(***************************************************************************)
ParsedA == Fields(fA, "T")
ParsedB == Fields(fB, "T")
Size(f) == Len(f.local) + Len(f.related)
Nested(f, n) == f.related[DictGet(f.related, n)].fields
NoFields == Fields(EmptyM, "T")
NestedOrNone(f, n) == IF n \in DictKeys(f.related) THEN Nested(f, n) ELSE NoFields
Pos(s, x) == CHOOSE i \in DOMAIN s : s[i] = x

RECURSIVE Leaves(_)
\* the paths (relation names, then a local field name) a selection holds
Leaves(f) ==
    {<<f.local[i]>> : i \in DOMAIN f.local}
    \cup UNION {{<<f.related[i].name>> \o p : p \in Leaves(f.related[i].fields)} :
                  i \in DOMAIN f.related}

ExampleA == Tup(<<S("a"), S("b"), R("r", Tup(<<S("x"), S("y")>>))>>)
ExampleB == Tup(<<S("a"), R("r", Tup(<<S("x")>>))>>)
ExampleOut == Tup(<<S("b"), R("r", Tup(<<S("y")>>))>>)

\* C7: after A -= B, A.local is A's former local list without the names in
\* B.local, in A's order; the paths selected by A are those A selected before
\* minus those B selects (the subtraction recurses into the relations of
\* both); a relation is dropped exactly when nothing of it is left, the
\* relations that stay are non-empty and len(A) drops by what was removed;
\* (a, b, {r: (x, y)}) minus (a, {r: (x)}) is (b, {r: (y)}).
C7_Subtraction ==
    fpc = "done" =>
        /\ Range(fOut.local) = Range(ParsedA.local) \ Range(ParsedB.local)
        /\ \A i, j \in DOMAIN fOut.local :
               i < j => Pos(ParsedA.local, fOut.local[i]) < Pos(ParsedA.local, fOut.local[j])
        /\ Leaves(fOut) = Leaves(ParsedA) \ Leaves(ParsedB)
        /\ DictKeys(fOut.related) \subseteq DictKeys(ParsedA.related)
        /\ \A n \in DictKeys(fOut.related) : Size(Nested(fOut, n)) > 0
        /\ \A n \in DictKeys(ParsedA.related) \ DictKeys(fOut.related) :
               Leaves(Nested(ParsedA, n)) \subseteq Leaves(NestedOrNone(ParsedB, n))
        /\ __len__(fOut) = Size(ParsedA)
               - Cardinality(Range(ParsedA.local) \cap Range(ParsedB.local))
               - Cardinality(DictKeys(ParsedA.related) \ DictKeys(fOut.related))
        /\ (fA = ExampleA /\ fB = ExampleB) => fOut = Fields(ExampleOut, "T")

\* the documented example has been subtracted
C7_Witness ==
    /\ fpc = "done" /\ fA = ExampleA /\ fB = ExampleB
    /\ fOut.local = <<"b">> /\ DictKeys(fOut.related) = {"r"}

\* C8 as stated: a relation of A that B does not name is still in A afterwards
\* with the same nested selection, whatever that selection contains.
C8_AbsentRelationAlwaysKept ==
    fpc = "done" =>
        \A n \in DictKeys(ParsedA.related) \ DictKeys(ParsedB.related) :
            /\ n \in DictKeys(fOut.related)
            /\ Nested(fOut, n) = Nested(ParsedA, n)

\* C8 amended: a relation of A that B does not name is still in A afterwards
\* with the same nested selection when that selection is not empty; when it
\* is empty (no local field, no relation) the relation is removed from A.
C8_AbsentRelationKeptUnlessEmpty ==
    fpc = "done" =>
        \A n \in DictKeys(ParsedA.related) \ DictKeys(ParsedB.related) :
            IF Size(Nested(ParsedA, n)) > 0
            THEN n \in DictKeys(fOut.related) /\ Nested(fOut, n) = Nested(ParsedA, n)
            ELSE n \notin DictKeys(fOut.related)

\* a relation holding only a nested relation, not named by B, was kept
C8_Witness ==
    /\ fpc = "done"
    /\ "r" \in DictKeys(ParsedA.related) \ DictKeys(ParsedB.related)
    /\ Nested(ParsedA, "r").local = <<>>
    /\ Size(Nested(ParsedA, "r")) > 0
    /\ "r" \in DictKeys(fOut.related)

(***************************************************************************)
(* Properties of Spec.                                                     *)
(***************************************************************************)
Stored(st, p) == st.stored[p[1]][p[2]]
CodecOf(p) == Codec(ModelOf(p[1]), p[2])
LivePairs == {p \in Pairs : p[1] \in db.alive}

\* no active marker and the original value
Protected(p) == p \notin db.markers /\ Stored(db, p) = OrigValue(p[1], p[2])

\* an active marker and the original value anonymized exactly once, with
\* the key the marker was written with
Anonymized(p) ==
    /\ p \in db.markers
    /\ Stored(db, p) = get_value_from_obj(CodecOf(p), OrigValue(p[1], p[2]),
                                          db.anonKey[p], TRUE)

\* a step changes a field's value exactly together with its marker, writes
\* the codec's output for the value it found, and leaves the value of a
\* field without marker alone unless it anonymizes it
ValueWithMarker ==
    \A p \in Pairs :
       /\ Stored(db', p) # Stored(db, p) =>
             (p \in db.markers) # (p \in db'.markers)
       /\ (p \notin db.markers /\ p \in db'.markers) =>
             Stored(db', p) = get_value_from_obj(CodecOf(p), Stored(db, p),
                                                 db'.anonKey[p], TRUE)
       /\ (p \in db.markers /\ p \notin db'.markers) =>
             /\ CodecOf(p) = "rev"
             /\ \E k \in 1..KeyMod :
                   Stored(db', p) = get_value_from_obj("rev", Stored(db, p),
                                                       k, FALSE)
       /\ (p \notin db.markers /\ p \notin db'.markers) =>
             Stored(db', p) = Stored(db, p)

\* C1 as stated: after any sequence of anonymize_obj and deanonymize_obj
\* calls every field of every object is Protected or Anonymized, and no step
\* commits a value without its marker change or a marker change without its
\* value, or decrypts a field that has no marker.
C1_TwoStatesAlways ==
    [](\A p \in LivePairs : Protected(p) \/ Anonymized(p))
    /\ [][ValueWithMarker]_vars

\* C1, amended: the same holds for every field that was never deanonymized
\* with another key than the one it was anonymized with; for every field,
\* whatever the keys, no step commits a value without its marker change or
\* a marker change without its value, or decrypts a field without marker.
C1_TwoStatesUnderSameKey ==
    [](\A p \in LivePairs \ db.tainted : Protected(p) \/ Anonymized(p))
    /\ [][ValueWithMarker]_vars

\* a field was anonymized and deanonymized with its key, another is still
\* anonymized
C1_Witness ==
    /\ result \in {"ok", "raised"}
    /\ ~cur.anon
    /\ \E p \in LivePairs \ db.tainted :
          p \in snap.markers \ db.markers /\ Protected(p)
    /\ \E p \in LivePairs : Anonymized(p)

\* the stored values, the markers and the existing objects are the same
SameData(s, t) ==
    s.stored = t.stored /\ s.markers = t.markers /\ s.alive = t.alive

RootFields(c) == Fields(Selection(c.sel), ModelOf(c.root))

RECURSIVE Reach(_, _, _)
\* the fields a parsed selection names on obj and, through the relations,
\* on the objects related to it
Reach(st, F, o) ==
    {<<o, F.local[i]>> : i \in DOMAIN F.local} \cup
    UNION {UNION {Reach(st, F.related[i].fields, r) :
                    r \in Range(RelatedObjects(o, F.related[i].name))
                          \cap st.alive} :
             i \in DOMAIN F.related}

\* update_obj on the frame's object refuses to deanonymize: its anonymizer
\* is irreversible, or a selected field with a marker has a function
\* anonymizer without deanonymize_func
Refuses(st, fr) ==
    \/ ~is_reversible(ModelOf(fr.obj))
    \/ \E n \in Range(fr.fields.local) :
          <<fr.obj, n>> \in st.markers /\ Codec(ModelOf(fr.obj), n) = "func"

\* C3 as stated: a deanonymization whose selection reaches a field marked
\* anonymized with a one-way codec raises, and neither the object nor a
\* related object is written.
C3_OneWayBlocksEverything ==
    (/\ ~cur.anon
     /\ result \in {"running", "ok", "raised"}
     /\ trace.failedAt = NoObj
     /\ \E p \in Reach(snap, RootFields(cur), cur.root) \cap snap.markers :
           CodecOf(p) \in {"hash", "func"})
    => result # "ok" /\ SameData(db, snap)

\* a step of a deanonymization that is not an interruption
DeanonymizeStep ==
    /\ result = "running"
    /\ ~cur.anon
    /\ stack # <<>>
    /\ result' # "interrupted"

\* C3, amended: update_obj raises before it writes anything to an object
\* when the object's anonymizer is irreversible or a selected, marked field
\* of the object has a function anonymizer without deanonymize_func; the
\* writes already committed to the objects visited before stay.  A marked
\* field of a one-way codec that only reports is_reversible = False does
\* not raise: it is skipped and keeps its value and its marker.
C3_RefusalIsPerObject ==
    [][DeanonymizeStep =>
        /\ (Head(stack).kind = "obj" /\ Refuses(db, Head(stack))) =>
              result' = "raised" /\ db' = db
        /\ \A p \in Pairs : CodecOf(p) # "rev" =>
              /\ Stored(db', p) = Stored(db, p)
              /\ (p \in db'.markers) = (p \in db.markers)]_vars

\* the deanonymization raised at a related object after the root's own
\* fields were restored
C3_Witness ==
    /\ result = "raised"
    /\ ~cur.anon
    /\ trace.failedAt = NoObj
    /\ <<"p1", "secret_code">> \in db.markers
    /\ <<"a1", "number">> \in snap.markers \ db.markers

\* the call repeats the call before it, which returned normally
RepeatsCompletedCall == prev.call = cur /\ prev.result = "ok"

\* C4: an anonymize_obj call that repeats the completed call before it, with
\* the same selection, writes nothing: no value changes, no field is
\* encrypted twice, no marker is added, and it does not raise.
C4_SecondCallIsNoOp ==
    (cur.anon /\ RepeatsCompletedCall) => db = snap /\ result # "raised"

C4_Witness ==
    /\ cur.anon
    /\ RepeatsCompletedCall
    /\ result = "ok"
    /\ cur.sel = "tree"
    /\ <<"p1", "value">> \in db.markers

\* the call deanonymizes with the selection and the keys of the completed
\* anonymization before it
ReversesCompletedCall ==
    /\ ~cur.anon
    /\ prev.call.anon
    /\ \A f \in {"root", "sel", "ctor", "base"} : prev.call[f] = cur[f]
    /\ prev.result = "ok"
    /\ result = "ok"

\* the markers the anonymization before the current call created
Created == snap.markers \ snapPrev.markers

\* every field the selection of the call names, on the root and on the
\* related objects, has a reversible codec
AllReversible ==
    \A p \in Reach(snapPrev, RootFields(cur), cur.root) :
       p \in Pairs /\ CodecOf(p) = "rev"

\* C5 as stated: after anonymize_obj and then deanonymize_obj with the same
\* selection, all of reversible codecs, and the same base key, every field
\* the anonymization marked has the value it had before the anonymization
\* and its marker is removed, on the root and on the related objects.
C5_RoundTripSameBaseKey ==
    (ReversesCompletedCall /\ AllReversible) =>
        \A p \in Created :
            /\ p \notin db.markers
            /\ Stored(db, p) = Stored(snapPrev, p)

\* C5, the part that holds: after anonymize_obj and then deanonymize_obj
\* with the same selection and the same base key, every field the
\* anonymization marked, whose codec is reversible and whose key the
\* deanonymization derived as the anonymization did, has the value it had
\* before the anonymization; the marker of every such field is removed, on
\* the root and on the related objects.
C5_RoundTrip ==
    ReversesCompletedCall =>
        \A p \in Created \ db.tainted : CodecOf(p) = "rev" =>
            /\ p \notin db.markers
            /\ Stored(db, p) = Stored(snapPrev, p)

\* the two-level selection was anonymized and restored
C5_Witness ==
    /\ ReversesCompletedCall
    /\ cur.sel = "tree"
    /\ {<<"a1", "number">>, <<"a2", "number">>, <<"p1", "value">>,
        <<"n1", "note">>} \subseteq Created \ db.tainted
    /\ SameData(db, snapPrev)

\* the call repeats the call before it, which was interrupted
RetriesInterruptedCall ==
    /\ prev.call = cur
    /\ prev.result = "interrupted"
    /\ result \in {"ok", "raised"}
    /\ trace.failedAt = NoObj

\* C9: when a call is interrupted between two of its steps and the same
\* call is made again, it ends with the values and markers of one
\* uninterrupted run of the call from the state before the first attempt.
C9_RetryCompletes ==
    RetriesInterruptedCall =>
        \E rnd \in RandomKeys("f1") :
           LET run == RunAll(snapPrev, <<RootFrame(cur)>>, rnd)
           IN run.raised = (result = "raised") /\ run.st = db

\* the first attempt committed the root's own batch, the retry did the rest
C9_Witness ==
    /\ RetriesInterruptedCall
    /\ result = "ok"
    /\ cur.sel = "mixed"
    /\ snap.markers = {<<"c1", "first_name">>, <<"c1", "primary_email_address">>}
    /\ <<"a1", "number">> \in db.markers

\* C10 as stated: within one call no related object is written before the
\* own write of the object it is reached from is committed, and when the
\* commit of an object's own write fails no object related to it was
\* written.
C10_OwnWriteFirst ==
    /\ \A e \in trace.touched : e[1] # NoObj => e[3]
    /\ \A e \in trace.touched : e[1] # NoObj => e[1] # trace.failedAt

\* C10, amended: this holds for every object whose own write is the batch
\* of its local fields.  An object that a DeleteModelAnonymizer deletes
\* (__SELF__) is deleted after the objects related to it were written, and
\* they stay written when its deletion fails.
C10_OwnBatchFirstDeleteLast ==
    /\ \A e \in trace.touched :
          e[1] # NoObj => (e[3] <=> e[1] \notin trace.deleting)
    /\ \A e \in trace.touched :
          (e[1] # NoObj /\ e[1] = trace.failedAt) => e[1] \in trace.deleting

C10_Witness ==
    /\ \E e \in trace.touched : e[1] = "c1" /\ e[3]
    /\ \E e \in trace.touched : e[1] = "a1" /\ e[3]

(***************************************************************************)
(* Properties of SpecReasons.                                              *)
(***************************************************************************)
\* the fields the purpose's matrix names, on the customer and through the
\* relations
Covers(slug) == Reach(snap, Fields(PurposeFields(slug), "Customer"), "c1")

\* the purposes of the other legal reasons of the customer that are active
OtherActive(slug) ==
    {s \in Range(Purposes) : s # slug /\ reasons[s] = "ACTIVE"}

\* the fields the expiry of the reason may anonymize
Released(slug) ==
    Covers(slug) \ UNION {Covers(s) : s \in OtherActive(slug)}

\* a legal reason was expired or deactivated and the call returned
Expired == cur.op \in {"expire", "deactivate"} /\ result = "ok"

RenewsExpired ==
    /\ cur.op = "renew"
    /\ prev.call = ReasonCall("expire", cur.sel)
    /\ prev.result = "ok"
    /\ trace.failedAt = NoObj

UpdateObjStep == Running("obj") /\ result' # "interrupted"

\* C11: when the computation of the new value of a field of the object's
\* batch raises, update_obj raises and nothing is written: the values, the
\* versions and the markers of the object, and of every other object, are
\* the same after the step, also for the fields of the batch that were
\* computed before the one that raised.
C11_FailedComputeWritesNothing ==
    [][(UpdateObjStep /\ compute_raises(db, Head(stack)))
          => (result' = "raised" /\ db' = db)]_vars

\* a call on the account whose IBAN cannot be parsed has raised; the owner,
\* computed before the IBAN, is neither written nor marked
C11_Witness ==
    /\ cur = Call("a1", "iban", NoKey, 1, TRUE)
    /\ result = "raised"
    /\ trace.failedAt = NoObj
    /\ ~is_field_anonymized(db, "a1", "owner")
    /\ db.stored["a1"]["owner"] = OrigValue("a1", "owner")

\* the call has ended by itself: it returned or raised, and no commit failed
Ended == result \in {"ok", "raised"} /\ trace.failedAt = NoObj

\* C12: an anonymize_obj whose selection names a relation that is neither a
\* model field nor a registered relation anonymizer skips that relation and
\* returns normally, with the object's local fields and the other relations
\* of the selection anonymized.
C12_UnknownRelationIsSkipped ==
    (cur = Call("c1", "ghost", NoKey, NoKey, TRUE) /\ Ended)
       => /\ result = "ok"
          /\ is_field_anonymized(db, "c1", "primary_email_address")
          /\ is_field_anonymized(db, "n1", "note")

\* the call with the unknown relation name has raised and written nothing
C12_Witness ==
    /\ cur = Call("c1", "ghost", NoKey, NoKey, TRUE)
    /\ prev.call = NoCall
    /\ Ended
    /\ result = "raised"
    /\ db = InitialStorage

\* the objects whose anonymizer has anonymize_reversion = True
Versioned == {o \in Objects : anonymize_reversion(ModelOf(o))}

\* C13: for an object whose anonymizer anonymizes the reversion versions, in
\* every committed state each version has gone through the same translations
\* as the live object: for a field with a marker each version holds the value
\* the field's anonymizer gives to the version's original value under the key
\* the live value was encrypted with (never the original value itself, unless
\* it is empty), and for a field without a marker each version holds its
\* original value again, as the live object does (both for a field that was
\* never deanonymized with another key than it was anonymized with; after
\* such a deanonymization the versions are off by the same shift as the live
\* value).
C13_VersionsFollowLiveObject ==
    \A o \in Versioned :
       /\ Len(db.versions[o]) = Len(OrigVersions(o))
       /\ \A n \in Range(keys(ModelOf(o))), i \in DOMAIN OrigVersions(o) :
             LET orig == OrigVersions(o)[i][n]
                 v == db.versions[o][i][n]
                 key == db.anonKey[<<o, n>>]
                 codec == Codec(ModelOf(o), n)
             IN /\ orig = NULL => v = NULL
                /\ orig # NULL =>
                      (v - orig) % AlphabetLen =
                         (Stored(db, <<o, n>>) - OrigValue(o, n)) % AlphabetLen
                /\ <<o, n>> \notin db.tainted =>
                      IF is_field_anonymized(db, o, n)
                      THEN /\ v = get_value_from_obj(codec, orig, key, TRUE)
                           /\ Stored(db, <<o, n>>) =
                                 get_value_from_obj(codec, OrigValue(o, n),
                                                    key, TRUE)
                           /\ (orig # NULL => v # orig)
                      ELSE v = orig /\ Stored(db, <<o, n>>) = OrigValue(o, n)

\* the versioned object was anonymized and then deanonymized with the same
\* key: its versions and its live values are the original ones again
C13_Witness ==
    /\ cur = Call("e1", "names", NoKey, 1, FALSE)
    /\ prev = [call |-> Call("e1", "names", NoKey, 1, TRUE), result |-> "ok"]
    /\ snap.markers = {<<"e1", "first_name">>, <<"e1", "last_name">>}
    /\ snap.versions["e1"][1]["first_name"] # 0
    /\ result = "ok"
    /\ db.markers = {}
    /\ db.versions["e1"] = OrigVersions("e1")

(***************************************************************************)
(* SpecConcurrent: two traversals on different root objects run at the     *)
(* same time on the one database.  A traversal works on its own in-memory  *)
(* copy of each object: the root is loaded by the caller, the related      *)
(* objects when their relation is fetched.  update_obj reads the markers   *)
(* and computes the new values from the copy (one step: the computation    *)
(* touches nothing but the copy), then perform_update saves the whole      *)
(* object from the copy and writes the markers in one transaction (a       *)
(* second step).  The steps of the two traversals interleave freely.       *)
(***************************************************************************)
Traversals == {"t1", "t2"}

\* no random key is drawn for the objects of a reversible anonymizer
NoRandom == [n \in Range(AllNames) |-> NoKey]

ConcurrentCalls ==
    {Call("c1", id, NoKey, NoKey, a) : id \in {"tree", "email"},
                                        a \in BOOLEAN}
    \cup {Call("a1", "acct", NoKey, 1, a) : a \in BOOLEAN}
    \cup {Call("a1", "self", 1, NoKey, TRUE)}
    \cup {Call("n2", "all", NoKey, 1, a) : a \in BOOLEAN}

\* the storage the traversals start from: as created, or with the tree of
\* the customer anonymized before
StartStorages ==
    {InitialStorage,
     RunAll(InitialStorage,
            <<RootFrame(Call("c1", "tree", NoKey, NoKey, TRUE))>>,
            NoRandom).st}

NoPending == [obj |-> NoObj]

\* a pending update_obj invocation with the in-memory copy it works on: for
\* an object its own field values, for a relation those of the parent
CFrame(fr, copy) == [fr |-> fr, copy |-> copy, pending |-> NoPending]

Proc(c, st) ==
    [call |-> c,
     stack |-> <<CFrame(RootFrame(c), st.stored[c.root])>>,
     result |-> "running"]

\* the storage as the traversal sees it: the database, with the in-memory
\* copy in the place of the object's row
View(st, o, copy) == [st EXCEPT !.stored[o] = copy]

\* a write that replaces the marker table by the one the traversal has read
PendingWholeMarkerTable(view, fr, out) ==
    [obj |-> fr.obj,
     values |-> out.st.stored[fr.obj],
     versions |-> out.st.versions[fr.obj],
     added |-> out.st.markers,
     removed |-> Pairs \ out.st.markers,
     anonKey |-> out.st.anonKey,
     tainted |-> out.st.tainted \ view.tainted,
     push |-> out.push]

\* the write update_obj has computed from its view and not yet committed:
\* the object's new field values and versions, the markers to create and to
\* delete
Pending(view, fr, out) ==
    [obj |-> fr.obj,
     values |-> out.st.stored[fr.obj],
     versions |-> out.st.versions[fr.obj],
     added |-> out.st.markers \ view.markers,
     removed |-> view.markers \ out.st.markers,
     anonKey |-> out.st.anonKey,
     tainted |-> out.st.tainted \ view.tainted,
     push |-> out.push]

\* a _perform_update that creates markers and deletes none
_perform_updateKeepsMarkers(st, pend) ==
    [st EXCEPT
        !.stored[pend.obj] = pend.values,
        !.versions[pend.obj] = pend.versions,
        !.alive = @ \cup {pend.obj},
        !.markers = @ \cup pend.added,
        !.anonKey = [q \in Pairs |->
            IF q \in pend.added THEN pend.anonKey[q] ELSE @[q]],
        !.tainted = @ \cup pend.tainted]

\* _perform_update in its transaction: obj.save() writes every field of the
\* in-memory object (Django inserts the row again when it is gone), then the
\* AnonymizedData rows of the fields of the batch are created or deleted
_perform_update(st, pend) ==
    [st EXCEPT
        !.stored[pend.obj] = pend.values,
        !.versions[pend.obj] = pend.versions,
        !.alive = @ \cup {pend.obj},
        !.markers = (@ \cup pend.added) \ pend.removed,
        !.anonKey = [q \in Pairs |->
            IF q \in pend.added \cup pend.removed THEN pend.anonKey[q]
            ELSE @[q]],
        !.tainted = @ \cup pend.tainted]

InitConcurrent ==
    /\ fA = EmptyM
    /\ fB = EmptyM
    /\ fOut = Fields(EmptyM, "T")
    /\ fpc = "off"
    /\ db \in StartStorages
    /\ snap = db
    /\ \E ca, cb \in ConcurrentCalls :
          /\ ca.root # cb.root
          /\ {ca.root, cb.root} \subseteq db.alive
          /\ procs = [t \in Traversals |->
                         IF t = "t1" THEN Proc(ca, db) ELSE Proc(cb, db)]
    /\ stack = <<>>
    /\ cur = NoCall
    /\ result = "none"
    /\ prev = [call |-> NoCall, result |-> "none"]
    /\ snapPrev = InitialStorage
    /\ trace = NoTrace
    /\ ncalls = 0
    /\ reasons = [s \in Range(Purposes) |-> "none"]
    /\ expires_at = [s \in Range(Purposes) |-> 0]
    /\ now = 0
    /\ arg = <<>>
    /\ ret = NoRet

Top(t) == Head(procs[t].stack)

At(t, kind) ==
    /\ procs[t].result = "running"
    /\ procs[t].stack # <<>>
    /\ Top(t).fr.kind = kind

\* the traversal goes on with the frames pushed, or ends
Continue(t, frames, raised) ==
    procs' = [procs EXCEPT ![t] =
        IF raised THEN [@ EXCEPT !.stack = <<>>, !.result = "raised"]
        ELSE LET rest == frames \o Tail(@.stack)
             IN [@ EXCEPT !.stack = rest,
                          !.result = IF rest = <<>> THEN "ok" ELSE "running"]]

varsConcurrent == <<stack, cur, result, prev, snap, snapPrev, trace, ncalls,
                    reasons, varsF, arg, ret, varsT>>

\* update_obj up to perform_update: the checks, the marker filters and the
\* computation of the new values from the in-memory object
CheckAndCompute(t) ==
    /\ At(t, "obj")
    /\ Top(t).pending = NoPending
    /\ LET fr == Top(t).fr
           view == View(db, fr.obj, Top(t).copy)
           out == update_obj(view, fr, NoRandom)
       IN IF out.raised THEN Continue(t, <<>>, TRUE)
          ELSE IF out.wrote
          THEN procs' = [procs EXCEPT ![t].stack[1].pending =
                            Pending(view, fr, out)]
          ELSE Continue(t, [i \in DOMAIN out.push |->
                               CFrame(out.push[i], Top(t).copy)], FALSE)
    /\ UNCHANGED <<db, varsConcurrent>>

\* AnonymizedData.objects.create raises IntegrityError for a marker that
\* exists: content_type, object_id and field are unique together
IntegrityError(st, pend) == pend.added \cap st.markers # {}

\* perform_update / perform_update_with_version commits the computed write;
\* when a marker cannot be created the transaction is rolled back and the
\* call raises
Commit(t) ==
    /\ At(t, "obj")
    /\ Top(t).pending # NoPending
    /\ LET pend == Top(t).pending
       IN IF IntegrityError(db, pend)
          THEN /\ db' = db
               /\ Continue(t, <<>>, TRUE)
          ELSE /\ db' = _perform_update(db, pend)
               /\ Continue(t, [i \in DOMAIN pend.push |->
                                   CFrame(pend.push[i], pend.values)], FALSE)
    /\ UNCHANGED varsConcurrent

\* update_related_fields fetches the objects of one relation; the key comes
\* from the parent object as the traversal holds it
FetchRelated(t) ==
    /\ At(t, "rel")
    /\ LET fr == Top(t).fr
           out == update_related_fields(View(db, fr.obj, Top(t).copy), fr,
                                        NoRandom)
       IN Continue(t, [i \in DOMAIN out.push |->
                          CFrame(out.push[i],
                                 db.stored[out.push[i].obj])], out.raised)
    /\ UNCHANGED <<db, varsConcurrent>>

\* DeleteModelAnonymizer deletes the object's row
DeleteRow(t) ==
    /\ At(t, "del")
    /\ db' = delete(db, Top(t).fr).st
    /\ Continue(t, <<>>, FALSE)
    /\ UNCHANGED varsConcurrent

NextConcurrent ==
    \E t \in Traversals :
       \/ CheckAndCompute(t)
       \/ Commit(t)
       \/ FetchRelated(t)
       \/ DeleteRow(t)

SpecConcurrent == InitConcurrent /\ [][NextConcurrent]_vars

(***************************************************************************)
(* Properties of SpecConcurrent                                            *)
(***************************************************************************)
\* both traversals have returned or raised
BothEnded == \A t \in Traversals : procs[t].result \in {"ok", "raised"}

\* the call made on the storage st, alone and to its end
Alone(st, c) ==
    IF c.root \in st.alive
    THEN RunAll(st, <<RootFrame(c)>>, NoRandom).st
    ELSE st

\* the two calls one after the other, in either order
Sequential ==
    {Alone(Alone(snap, procs["t1"].call), procs["t2"].call),
     Alone(Alone(snap, procs["t2"].call), procs["t1"].call)}

\* the same objects, the same values of the objects that exist, the same
\* markers
SameFinal(s, t) ==
    /\ s.alive = t.alive
    /\ s.markers = t.markers
    /\ \A o \in s.alive : s.stored[o] = t.stored[o]

RECURSIVE Visits(_, _, _)
\* the objects a traversal of the parsed selection from obj can reach
Visits(st, F, o) ==
    {o} \cup
    UNION {UNION {Visits(st, F.related[i].fields, r) :
                    r \in Range(RelatedObjects(o, F.related[i].name))} :
             i \in DOMAIN F.related}

VisitsOf(t) ==
    LET reach == Visits(snap, RootFields(procs[t].call), procs[t].call.root)
    IN UNION {Cascade(o) : o \in reach}

\* C14 as stated: whatever objects the two traversals reach, once both have
\* ended the stored values and the markers are those of the two calls run
\* one after the other.
C14_DifferentRootsSerializable ==
    BothEnded => \E s \in Sequential : SameFinal(db, s)

\* C14: two traversals started on different roots that reach no common
\* object end, under every interleaving of their marker checks, computations
\* and commits, with the stored values and markers of the two calls run one
\* after the other.
C14_DisjointTraversalsSerializable ==
    (BothEnded /\ VisitsOf("t1") \cap VisitsOf("t2") = {})
       => \E s \in Sequential : SameFinal(db, s)

\* the traversal of the customer's tree and that of a note have both ended,
\* each having written
C14_Witness ==
    /\ BothEnded
    /\ procs["t1"].call = Call("c1", "tree", NoKey, NoKey, TRUE)
    /\ procs["t2"].call = Call("n2", "all", NoKey, 1, TRUE)
    /\ snap = InitialStorage
    /\ <<"a1", "number">> \in db.markers
    /\ <<"n2", "note">> \in db.markers

(***************************************************************************)
(* SpecSameObject: two calls on the same account.  The caller of each      *)
(* loads the object (Load) and the call then runs as in SpecConcurrent;    *)
(* the steps interleave freely, so a call may work on a copy that the      *)
(* other call's commit has made stale.  The field alone of a traversal     *)
(* records that the other call was not running when the object was loaded. *)
(***************************************************************************)
SameObjectCalls ==
    {Call("a2", id, NoKey, 1, a) : id \in {"acct", "iban"}, a \in BOOLEAN}

\* the account as created, or with its number anonymized before
SameObjectStorages ==
    {InitialStorage,
     RunAll(InitialStorage,
            <<RootFrame(Call("a2", "acct", NoKey, 1, TRUE))>>, NoRandom).st}

\* a call that is to be made, and the call started on the object as loaded
NewProc(c) == [call |-> c, stack |-> <<>>, result |-> "new", alone |-> TRUE]
LoadedProc(c, st, alone) ==
    [call |-> c,
     stack |-> <<CFrame(RootFrame(c), st.stored[c.root])>>,
     result |-> "running",
     alone |-> alone]

InitSameObject ==
    /\ fA = EmptyM
    /\ fB = EmptyM
    /\ fOut = Fields(EmptyM, "T")
    /\ fpc = "off"
    /\ db \in SameObjectStorages
    /\ snap = db
    /\ \E ca, cb \in SameObjectCalls :
          procs = [t \in Traversals |->
                      IF t = "t1" THEN NewProc(ca) ELSE NewProc(cb)]
    /\ stack = <<>>
    /\ cur = NoCall
    /\ result = "none"
    /\ prev = [call |-> NoCall, result |-> "none"]
    /\ snapPrev = InitialStorage
    /\ trace = NoTrace
    /\ ncalls = 0
    /\ reasons = [s \in Range(Purposes) |-> "none"]
    /\ expires_at = [s \in Range(Purposes) |-> 0]
    /\ now = 0
    /\ arg = <<>>
    /\ ret = NoRet

\* the caller fetches the object from the database and makes the call
Load(t) ==
    /\ procs[t].result = "new"
    /\ procs' = [procs EXCEPT ![t] =
                    LoadedProc(@.call, db,
                               \A u \in Traversals \ {t} :
                                   procs[u].result # "running")]
    /\ UNCHANGED <<db, varsConcurrent>>

NextSameObject ==
    \E t \in Traversals :
       \/ Load(t)
       \/ CheckAndCompute(t)
       \/ Commit(t)
       \/ FetchRelated(t)

SpecSameObject == InitSameObject /\ [][NextSameObject]_vars

(***************************************************************************)
(* Properties of SpecSameObject                                            *)
(***************************************************************************)
\* every field has no marker and its original value, or one marker and its
\* original value encrypted once
TwoStates == \A p \in LivePairs : Protected(p) \/ Anonymized(p)

\* each call loaded the object when the other was not running
Serialized == \A t \in Traversals : procs[t].alone

\* C24 as stated: whatever the interleaving of two calls on the same
\* object, no committed state has a field with a marker and its original
\* value, an anonymized value without marker, or a value encrypted twice.
C24_NoInterleavingInconsistent == TwoStates

\* C24, amended: the four states are excluded when the two calls on the
\* object are serialized, each loading the object when the other is not
\* running, and when both anonymize the same fields of the object as
\* created; a marker is never created twice, the second create fails and
\* the call's transaction is rolled back.
C24_SerializedCallsConsistent ==
    /\ [](Serialized => TwoStates)
    /\ []((procs["t1"].call = procs["t2"].call /\ procs["t1"].call.anon
            /\ snap = InitialStorage) => TwoStates)
    /\ [][\A t \in Traversals :
             (At(t, "obj") /\ Top(t).pending # NoPending
                 /\ IntegrityError(db, Top(t).pending)
                 /\ procs'[t] # procs[t])
                => (db' = db /\ procs'[t].result = "raised")]_vars

\* the number and then the IBAN of the account were anonymized, one call
\* after the other
C24_Witness ==
    /\ BothEnded /\ Serialized
    /\ snap = InitialStorage
    /\ procs["t1"].call = Call("a2", "acct", NoKey, 1, TRUE)
    /\ procs["t2"].call = Call("a2", "iban", NoKey, 1, TRUE)
    /\ {<<"a2", "number">>, <<"a2", "IBAN">>} \subseteq db.markers
    /\ Anonymized(<<"a2", "number">>) /\ Anonymized(<<"a2", "IBAN">>)

\* both calls had computed the anonymized number from the object as
\* created; the first committed, the second failed on the marker
C24_SecondCreateFailed ==
    /\ BothEnded /\ ~Serialized
    /\ procs["t1"].call = Call("a2", "acct", NoKey, 1, TRUE)
    /\ procs["t2"].call = procs["t1"].call
    /\ procs["t1"].result = "ok" /\ procs["t2"].result = "raised"
    /\ Anonymized(<<"a2", "number">>)

\* the two calls overlapped and the later save wrote the original number
\* back under the number's marker
C24_LostUpdate ==
    /\ BothEnded /\ ~Serialized
    /\ <<"a2", "number">> \in db.markers
    /\ Stored(db, <<"a2", "number">>) = OrigValue("a2", "number")

\* a call decrypted its stale copy, and a call encrypted its stale copy of
\* the encrypted number again
C24_StaleCopy ==
    /\ BothEnded /\ ~Serialized
    /\ ~Protected(<<"a2", "number">>) /\ ~Anonymized(<<"a2", "number">>)
    /\ procs["t1"].call.sel = "acct" /\ procs["t2"].call.sel = "acct"

(***************************************************************************)
(* SpecKeys: the derivation of the per-field key.  The key is derived      *)
(* twice for the same object, base key and field name, and the string that *)
(* is hashed is built for two inputs that differ in one component.         *)
(***************************************************************************)
MaxKeyLen == 2

\* strings as sequences of characters
SeqsUpTo(chars, n) == UNION {[1..k -> chars] : k \in 1..n}

\* str(obj.pk), base keys (any characters), the secret, field names
PkStrings == {<<"1">>, <<"2">>, <<"1", "2">>}
KeyStrings == SeqsUpTo({"k", ":"}, MaxKeyLen)
SecretString == <<"s">>
NameStrings == {<<"a">>, <<"b">>, <<"a", "b">>}

\* _get_encryption_key, line 109-110: the string handed to sha256
key_material(p, k, name) ==
    p \o <<":", ":">> \o k \o <<":", ":">> \o SecretString
      \o <<":", ":">> \o name

\* the inputs: an object, a base key and a field name to derive the key
\* twice for, or two inputs of the hashed string that differ in exactly one
\* of object id, base key and field name
KeyArgs ==
    {[kind |-> "twice", obj |-> o, base |-> b, name |-> n] :
        o \in {"c1", "a1", "a2", "p1", "f1"},
        b \in {NoKey} \cup BaseKeys,
        n \in {"number", "owner", "value", "email"}}
    \cup {[kind |-> "changed", one |-> xy[1], other |-> xy[2]] :
            xy \in {z \in (PkStrings \X KeyStrings \X NameStrings)
                             \X (PkStrings \X KeyStrings \X NameStrings) :
                       Cardinality({i \in 1..3 : z[1][i] # z[2][i]}) = 1}}

InitKeys ==
    /\ fA = EmptyM
    /\ fB = EmptyM
    /\ fOut = Fields(EmptyM, "T")
    /\ fpc = "off"
    /\ NoCalls
    /\ procs = <<>>
    /\ arg \in KeyArgs
    /\ ret = NoRet

\* _get_encryption_key(obj, field_name) called twice; r1 and r2 are what
\* random.choices returns in the two calls
DeriveTwice ==
    /\ ret = NoRet
    /\ arg.kind = "twice"
    /\ \E r1, r2 \in BaseKeys :
          ret' = [done |-> TRUE,
                  one |-> _get_encryption_key(db, arg.obj, arg.base,
                                              arg.name, r1),
                  other |-> _get_encryption_key(db, arg.obj, arg.base,
                                                arg.name, r2)]
    /\ UNCHANGED <<varsCalls, varsF, procs, arg, varsT>>

\* the strings hashed for the two inputs
DeriveChanged ==
    /\ ret = NoRet
    /\ arg.kind = "changed"
    /\ ret' = [done |-> TRUE,
               one |-> key_material(arg.one[1], arg.one[2], arg.one[3]),
               other |-> key_material(arg.other[1], arg.other[2],
                                      arg.other[3])]
    /\ UNCHANGED <<varsCalls, varsF, procs, arg, varsT>>

NextKeys == DeriveTwice \/ DeriveChanged

SpecKeys == InitKeys /\ [][NextKeys]_vars

(***************************************************************************)
(* Properties of SpecKeys                                                  *)
(***************************************************************************)
\* C15 as stated: the key derived twice for the same object, base key and
\* field name is the same, for every anonymizer: the library draws nothing
\* at random.
C15_KeyIsDeterministic ==
    (ret.done /\ arg.kind = "twice") => ret.one = ret.other

\* C15: for an anonymizer that is reversible the key derived twice for the
\* same object, base key and field name is the same; and the string that is
\* hashed into the key changes when only the object id, only the base key
\* or only the field name changes.
C15_ReversibleKeyIsDeterministic ==
    /\ (ret.done /\ arg.kind = "twice" /\ is_reversible(ModelOf(arg.obj)))
          => ret.one = ret.other
    /\ (ret.done /\ arg.kind = "changed") => ret.one # ret.other

\* the key of an account's number was derived twice from a base key
C15_Witness ==
    /\ arg = [kind |-> "twice", obj |-> "a1", base |-> 1, name |-> "number"]
    /\ ret.done
    /\ ret.one # NoKey
    /\ ret.one = ret.other

(***************************************************************************)
(* SpecParse: a field matrix, well-formed or not, is parsed by Fields and  *)
(* split by a purpose (both on the generic model T, whose anonymizer knows *)
(* the fields a, b, x, y and the relations r, s); the parsed Fields is     *)
(* then subtracted from.                                                   *)
(***************************************************************************)
MaxElems == 2

\* nested matrices
SubMatrices ==
    {ALL, Tup(<<S("a")>>), Tup(<<S("__ALL__"), S("q")>>),
     Tup(<<S("s"), R("s", ALL)>>)}

\* the elements: names of fields, a string that is no field of the
\* anonymizer (q), the name of a relation as a string (r), the wildcard,
\* relations, and the malformed elements
ParseElems ==
    {S("a"), S("q"), S("r"), S("__ALL__"), Other}
    \cup {R("r", m) : m \in SubMatrices}
    \cup {R("s", m) : m \in SubMatrices}
    \cup {Triple("r", m) : m \in SubMatrices}

ParseMatrices ==
    {ALL} \cup {Tup(es) : es \in {<<>>} \cup SeqsUpTo(ParseElems, MaxElems)}

\* the matrices subtracted
Subtrahends ==
    {ALL, Tup(<<S("a")>>), Tup(<<S("r")>>), Tup(<<R("r", ALL)>>),
     Tup(<<S("q"), R("r", Tup(<<S("a")>>))>>)}

InitParse ==
    /\ fA \in ParseMatrices
    /\ fB \in Subtrahends
    /\ fOut = Fields(EmptyM, "T")
    /\ fpc = "init"
    /\ Idle

\* Fields(fields, model)
ParseFields ==
    /\ fpc = "init"
    /\ fOut' = Fields(fA, "T")
    /\ fpc' = "parsed"
    /\ UNCHANGED <<fA, fB, varsCalls, varsX>>

\* purpose.split_fields(fields, model)
SplitFields ==
    /\ ret = NoRet
    /\ ret' = [done |-> TRUE,
               exc |-> split_fields_exc(fA),
               local |-> get_local_fields("T", fA),
               related |-> get_related_fields(fA)]
    /\ UNCHANGED <<varsF, varsCalls, procs, arg, varsT>>

\* parsed -= Fields(other, model)
SubtractParsed ==
    /\ fpc = "parsed"
    /\ ~fOut.err
    /\ fOut' = __isub__(fOut, Fields(fB, "T"))
    /\ fpc' = "done"
    /\ UNCHANGED <<fA, fB, varsCalls, varsX>>

NextParse == ParseFields \/ SplitFields \/ SubtractParsed

SpecParse == InitParse /\ [][NextParse]_vars

(***************************************************************************)
(* Properties of SpecParse                                                 *)
(***************************************************************************)
\* the matrix has an element that is neither a string nor a tuple of two
MalformedMatrix(fields) ==
    ~fields.bare /\ \E i \in DOMAIN fields.elems :
        ~fields.elems[i].str /\ fields.elems[i].len # 2

\* C16: a matrix with a malformed element is rejected with
\* ImproperlyConfigured wherever it is parsed: by the construction of Fields
\* and by the purpose's split_fields.
C16_MalformedIsImproperlyConfigured ==
    /\ (fpc = "parsed" /\ MalformedMatrix(fA))
          => fOut.exc = "ImproperlyConfigured"
    /\ (ret.done /\ MalformedMatrix(fA))
          => ret.exc = "ImproperlyConfigured"

\* Fields has parsed ('a', 1) without an exception: the number is dropped
C16_Witness ==
    /\ fA = Tup(<<S("a"), Other>>)
    /\ fpc = "parsed"
    /\ fOut.exc = ""
    /\ fOut.local = <<"a">>
    /\ ret.done
    /\ ret.exc = "ImproperlyConfigured"

(***************************************************************************)
(* The wildcard among other elements                                       *)
(***************************************************************************)
\* '__ALL__' is an element of the matrix
HasWildcard(fields) ==
    ~fields.bare /\ \E i \in DOMAIN fields.elems :
        fields.elems[i].str /\ fields.elems[i].name = "__ALL__"

\* the strings listed in the matrix beside the wildcard
Listed(fields) ==
    {fields.elems[i].name : i \in {j \in DOMAIN fields.elems :
        fields.elems[j].str /\ fields.elems[j].name # "__ALL__"}}

\* C17 as stated: with the wildcard among the elements local is the union of
\* the strings listed and the names the anonymizer knows, and the bare
\* wildcard gives the known names; for Fields and for the purpose's split.
C17_WildcardIsUnion ==
    /\ (fpc = "parsed" /\ fOut.exc = "" /\ HasWildcard(fA))
          => Range(fOut.local) = Listed(fA) \cup Range(keys("T"))
    /\ (ret.done /\ ret.exc = "" /\ HasWildcard(fA))
          => Range(ret.local) = Listed(fA) \cup Range(keys("T"))
    /\ (fpc = "parsed" /\ fA.bare) => fOut.local = keys("T")
    /\ (ret.done /\ fA.bare) => ret.local = keys("T")

\* C17: with the wildcard among the elements, as with the bare wildcard,
\* local is exactly the list of the names the anonymizer knows: a string
\* listed beside the wildcard that is none of them is not in local; for
\* Fields and for the purpose's split.
C17_WildcardIsKnownNames ==
    /\ (fpc = "parsed" /\ fOut.exc = "" /\ (HasWildcard(fA) \/ fA.bare))
          => fOut.local = keys("T")
    /\ (ret.done /\ ret.exc = "" /\ (HasWildcard(fA) \/ fA.bare))
          => ret.local = keys("T")

\* ('q', '__ALL__') was parsed and split: q is not among the local fields
C17_Witness ==
    /\ fA = Tup(<<S("q"), S("__ALL__")>>)
    /\ fpc = "parsed"
    /\ fOut.exc = ""
    /\ "q" \notin Range(fOut.local)
    /\ fOut.local = keys("T")
    /\ ret.done
    /\ ret.local = keys("T")

(***************************************************************************)
(* Local names and relation names                                          *)
(***************************************************************************)
RECURSIVE DisjointNames(_)
\* no name of f, nor of a Fields nested in it, is both local and related
DisjointNames(f) ==
    /\ Range(f.local) \cap DictKeys(f.related) = {}
    /\ \A i \in DOMAIN f.related : DisjointNames(f.related[i].fields)

RECURSIVE ListedOnce(_)
\* no level of the matrix lists a name as a string and as a relation
ListedOnce(fields) ==
    fields.bare
    \/ \A i \in DOMAIN fields.elems :
           LET e == fields.elems[i]
           IN e.len = 2 =>
                 /\ e.name \notin Listed(fields)
                 /\ ListedOnce(e.sub)

\* C18 as stated: whatever matrix was parsed, and after the subtraction, no
\* name is both a local field and a key of related.
C18_LocalAndRelatedDisjoint ==
    (fpc \in {"parsed", "done"} /\ fOut.exc = "") => DisjointNames(fOut)

\* C18: when no level of the matrix lists one name both as a string and as
\* a relation, no name is both a local field and a key of related, after
\* the parsing and after the subtraction.
C18_DisjointWhenListedOnce ==
    (fpc \in {"parsed", "done"} /\ fOut.exc = "" /\ ListedOnce(fA))
        => DisjointNames(fOut)

\* ('a', ('r', ('a',))) was parsed and ('a',) subtracted from it
C18_Witness ==
    /\ fA = Tup(<<S("a"), R("r", Tup(<<S("a")>>))>>)
    /\ fB = Tup(<<S("a")>>)
    /\ fpc = "done"
    /\ fOut.local = <<>>
    /\ DictKeys(fOut.related) = {"r"}
    /\ DisjointNames(fOut)

(***************************************************************************)
(* SpecExpiry: time passes; consents are given, legal reasons are expired  *)
(* and deactivated one by one, and the command deactivate_expired_reasons  *)
(* (LegalReason.objects.expire_old_consents) expires those whose time has  *)
(* come.                                                                   *)
(***************************************************************************)
MaxNow == 2

\* the purposes consent is given for
ExpirySlugs == {"FNL", "FNE", "ACC"}

\* a filter_expired that keeps the reasons whose time has passed only
filter_expiredStrict(slugs, ex, t) == {s \in slugs : ex[s] < t}

\* LegalReasonQuerySet.filter_expired: expires_at__lte=timezone.now()
filter_expired(slugs, ex, t) == {s \in slugs : ex[s] <= t}

\* LegalReasonQuerySet.filter_active
filter_active(slugs, rs) == {s \in slugs : rs[s] = "ACTIVE"}

\* LegalReasonQuerySet.filter_active_and_expired
filter_active_and_expired(rs, ex, t) ==
    filter_expired(filter_active(Range(Purposes), rs), ex, t)

\* the orders the queryset may hand its rows out in (created_at, the key of
\* Meta.ordering, is not part of the state: every order is taken)
Orders(set) ==
    {o \in SeqsUpTo(set, Cardinality(set)) :
        Len(o) = Cardinality(set) /\ Range(o) = set}

RECURSIVE expire_each(_, _, _)
\* the loop of Command.handle: reason.expire() for each row, each in its
\* transaction; an exception ends the loop and leaves what was committed
expire_each(st, rs, slugs) ==
    IF slugs = <<>> THEN [st |-> st, rs |-> rs, raised |-> FALSE]
    ELSE LET run == Purpose_anonymize_obj(st, rs, Head(slugs))
         IN IF run.raised THEN [st |-> st, rs |-> rs, raised |-> TRUE]
            ELSE expire_each(run.st, [rs EXCEPT ![Head(slugs)] = "EXPIRED"],
                             Tail(slugs))

InitExpiry == Init

\* time passes
Tick ==
    /\ now < MaxNow
    /\ now' = now + 1
    /\ UNCHANGED <<varsCalls, varsF, procs, arg, ret, expires_at>>

\* LegalReason.objects.create_consent(purpose_slug, customer)
create_consentNow == create_consent /\ cur'.sel \in ExpirySlugs

\* LegalReason.expire and LegalReason.deactivate, called on one reason
expireOne == expire /\ cur'.sel \in ExpirySlugs

deactivateOne == deactivate /\ cur'.sel \in ExpirySlugs

\* manage.py deactivate_expired_reasons (Command.handle)
deactivate_expired_reasons ==
    /\ ncalls < MaxCalls
    /\ \E order \in Orders(filter_active_and_expired(reasons, expires_at, now)) :
          LET out == expire_each(db, reasons, order)
          IN /\ db' = out.st
             /\ reasons' = out.rs
             /\ result' = IF out.raised THEN "raised" ELSE "ok"
    /\ cur' = ReasonCall("deactivate_expired_reasons", "")
    /\ prev' = [call |-> cur, result |-> result]
    /\ snap' = db
    /\ snapPrev' = snap
    /\ ncalls' = ncalls + 1
    /\ trace' = NoTrace
    /\ UNCHANGED <<stack, varsF, varsX>>

NextExpiry ==
    \/ Tick
    \/ create_consentNow
    \/ expireOne
    \/ deactivateOne
    \/ deactivate_expired_reasons

SpecExpiry == InitExpiry /\ [][NextExpiry]_vars

(***************************************************************************)
(* Properties of SpecExpiry                                                *)
(***************************************************************************)
\* the step is a run of the command
CommandStep ==
    cur'.op = "deactivate_expired_reasons" /\ ncalls' = ncalls + 1

\* the legal reasons that are ACTIVE and whose expires_at is at or before
\* the current time
Due == {s \in Range(Purposes) : reasons[s] = "ACTIVE" /\ expires_at[s] <= now}

\* the fields the matrices of the purposes name, from the customer
CoveredBy(st, slugs) ==
    UNION {Reach(st, Fields(PurposeFields(s), "Customer"), "c1") : s \in slugs}

find(alphabet, char) ==
    IF \E i \in DOMAIN alphabet : alphabet[i] = char
    THEN (CHOOSE i \in DOMAIN alphabet :
             /\ alphabet[i] = char
             /\ \A j \in 1..(i - 1) : alphabet[j] # char) - 1
    ELSE -1

RECURSIVE translate_from(_, _, _, _, _, _, _)
\* the loop of translate_text from the character i of the text on, with
\* key_index (from 0) and the characters translated so far
translate_from(key, text, encrypting, alphabet, i, key_index, translated) ==
    IF i > Len(text) THEN translated
    ELSE LET char == text[i]
             num == find(alphabet, char)
             shifted == (num + (IF encrypting THEN 1 ELSE -1)
                                  * find(alphabet, key[key_index + 1]))
                        % Len(alphabet)
         IN IF num # -1
            THEN translate_from(key, text, encrypting, alphabet, i + 1,
                     IF key_index + 1 = Len(key) THEN 0 ELSE key_index + 1,
                     Append(translated, alphabet[shifted + 1]))
            ELSE translate_from(key, text, encrypting, alphabet, i + 1,
                                key_index, Append(translated, char))

\* a translate_text that adds the key whether it encrypts or decrypts
translate_textAdds(key, text, encrypting, alphabet) ==
    translate_from(key, text, TRUE, alphabet, 1, 0, <<>>)

\* translate_text(key, text, encrypting, alphabet)
translate_text(key, text, encrypting, alphabet) ==
    translate_from(key, text, encrypting, alphabet, 1, 0, <<>>)

encrypt_text(key, text, alphabet) == translate_text(key, text, TRUE, alphabet)

decrypt_text(key, text, alphabet) == translate_text(key, text, FALSE, alphabet)

(***************************************************************************)
(* SpecText: a text is encrypted and the result decrypted with the same    *)
(* key and alphabet; a second text of the same length is encrypted with    *)
(* them too.                                                               *)
(***************************************************************************)
MaxText == 2

\* the characters of keys and texts; c is in the first alphabet only
TextChars == {"a", "b", "c"}

\* alphabets without a character twice
Alphabets == {<<"a", "b", "c">>, <<"b", "a">>}

Texts == {<<>>} \cup SeqsUpTo(TextChars, MaxText)

TextArgs ==
    {[key |-> k, text |-> t, other |-> o, alphabet |-> al] :
        k \in SeqsUpTo(TextChars, MaxKeyLen), t \in Texts,
        o \in SeqsUpTo(TextChars, MaxText), al \in Alphabets}

InitText ==
    /\ fA = EmptyM
    /\ fB = EmptyM
    /\ fOut = Fields(EmptyM, "T")
    /\ fpc = "off"
    /\ NoCalls
    /\ procs = <<>>
    /\ arg \in {a \in TextArgs : Len(a.other) = Len(a.text)}
    /\ ret = NoRet

\* encrypt_text(key, text, alphabet), and the same of the other text
EncryptText ==
    /\ ~ret.done
    /\ ret' = [done |-> TRUE, decrypted |-> FALSE,
               enc |-> encrypt_text(arg.key, arg.text, arg.alphabet),
               encOther |-> encrypt_text(arg.key, arg.other, arg.alphabet),
               dec |-> <<>>]
    /\ UNCHANGED <<varsCalls, varsF, procs, arg, varsT>>

\* decrypt_text(key, ciphertext, alphabet)
DecryptText ==
    /\ ret.done
    /\ ~ret.decrypted
    /\ ret' = [ret EXCEPT !.decrypted = TRUE,
                          !.dec = decrypt_text(arg.key, ret.enc, arg.alphabet)]
    /\ UNCHANGED <<varsCalls, varsF, procs, arg, varsT>>

NextText == EncryptText \/ DecryptText

SpecText == InitText /\ [][NextText]_vars

(***************************************************************************)
(* Properties of SpecText                                                  *)
(***************************************************************************)
\* the text has characters of the alphabet only
InAlphabet(text, alphabet) == Range(text) \subseteq Range(alphabet)

\* C20: for a text of characters of the alphabet and a key that is not
\* empty, decrypting the encrypted text with the same key and alphabet
\* gives the text; the encrypted text has the length of the text and
\* characters of the alphabet only, and two different texts of the same
\* length have different encrypted texts: with the key fixed, encryption
\* is a bijection on the texts of each length over the alphabet.
C20_RoundTripAndBijection ==
    /\ (ret.done /\ InAlphabet(arg.text, arg.alphabet)) =>
          /\ Len(ret.enc) = Len(arg.text)
          /\ InAlphabet(ret.enc, arg.alphabet)
          /\ (InAlphabet(arg.other, arg.alphabet) /\ arg.other # arg.text)
                => ret.encOther # ret.enc
    /\ (ret.done /\ ret.decrypted /\ InAlphabet(arg.text, arg.alphabet)) =>
          ret.dec = arg.text

\* 'ab' was encrypted with the key 'bc' over 'abc' to 'ba' and decrypted
C20_Witness ==
    /\ arg.key = <<"b", "c">>
    /\ arg.text = <<"a", "b">>
    /\ arg.alphabet = <<"a", "b", "c">>
    /\ ret.done /\ ret.decrypted
    /\ ret.enc = <<"b", "a">>
    /\ ret.dec = <<"a", "b">>

(***************************************************************************)
(* Strings of digits and integers.  A string is the sequence of its        *)
(* characters; an account number has up to ten digits and is kept as       *)
(* hi * 10^5 + lo.                                                         *)
(***************************************************************************)
DigitChars == <<"0", "1", "2", "3", "4", "5", "6", "7", "8", "9">>

\* encryption.NUMBERS
NUMBERS == <<"1", "2", "3", "4", "5", "6", "7", "8", "9", "0">>


LETTERS_ONLY ==
    <<"a", "b", "c", "d", "e", "f", "g", "h", "i", "j", "k", "l", "m",
      "n", "o", "p", "q", "r", "s", "t", "u", "v", "w", "x", "y", "z">>

LETTERS_UPPER ==
    <<"A", "B", "C", "D", "E", "F", "G", "H", "I", "J", "K", "L", "M",
      "N", "O", "P", "Q", "R", "S", "T", "U", "V", "W", "X", "Y", "Z">>

\* ord(char) of a digit, a capital, a small letter or the space
ord(char) ==
    IF find(DigitChars, char) # -1 THEN 48 + find(DigitChars, char)
    ELSE IF find(LETTERS_UPPER, char) # -1 THEN 65 + find(LETTERS_UPPER, char)
    ELSE IF find(LETTERS_ONLY, char) # -1 THEN 97 + find(LETTERS_ONLY, char)
    ELSE 32

RECURSIVE int_(_)
\* int(s) of a string of digits
int_(s) ==
    IF s = <<>> THEN 0
    ELSE int_(SubSeq(s, 1, Len(s) - 1)) * 10 + find(DigitChars, s[Len(s)])

RECURSIVE str_(_)
\* str(n) of a natural number
str_(n) ==
    IF n < 10 THEN <<DigitChars[n + 1]>>
    ELSE str_(n \div 10) \o <<DigitChars[(n % 10) + 1]>>

RECURSIVE rjust(_, _)
\* s.rjust(width, "0")
rjust(s, width) == IF Len(s) >= width THEN s ELSE rjust(<<"0">> \o s, width)

Half == 100000

\* int(s) of a string of up to ten digits
NumOf(s) ==
    IF Len(s) <= 5 THEN [hi |-> 0, lo |-> int_(s)]
    ELSE [hi |-> int_(SubSeq(s, 1, Len(s) - 5)),
          lo |-> int_(SubSeq(s, Len(s) - 4, Len(s)))]

\* str(num)
NumStr(num) ==
    IF num.hi = 0 THEN str_(num.lo)
    ELSE str_(num.hi) \o rjust(str_(num.lo), 5)

\* num + 1 and num - 1
Inc(num) ==
    IF num.lo = Half - 1 THEN [hi |-> num.hi + 1, lo |-> 0]
    ELSE [num EXCEPT !.lo = num.lo + 1]

Dec(num) ==
    IF num.lo = 0 THEN [hi |-> num.hi - 1, lo |-> Half - 1]
    ELSE [num EXCEPT !.lo = num.lo - 1]

\* num <= 0
LeZero(num) == num.hi < 0 \/ (num.hi = 0 /\ num.lo = 0)

ZeroNum == [hi |-> 0, lo |-> 0]

\* int('9' * 10)
Nines == [hi |-> Half - 1, lo |-> Half - 1]

RECURSIVE numerize_from(_, _, _)
\* encryption.numerize_key: sum(ord(key[i]) * 42 ** (i + 1)), from the
\* character i (from 1) on, power = 42 ** i
numerize_from(key, i, power) ==
    IF i > Len(key) THEN 0
    ELSE ord(key[i]) * power + numerize_from(key, i + 1, power * 42)

numerize_key(key) == numerize_from(key, 1, 42)

(***************************************************************************)
(* gdpr/anonymizers/local/cs.py: CzechAccountNumber and                    *)
(* CzechAccountNumberFieldAnonymizer.  The text of an account number is    *)
(* [pre, dash, num, bank]: the digits before the dash, whether the dash is *)
(* there, the digits of the number and those of the bank code.             *)
(***************************************************************************)
PRE_NUM_WEIGHTS == <<10, 5, 8, 4, 2, 1>>
NUM_WEIGHTS == <<6, 3, 7, 9, 10, 5, 8, 4, 2, 1>>

\* the anonymizer is constructed with this max_anonymization_range
max_anonymization_range == 5

NoPreNum == -1

RECURSIVE WeightedSum(_, _, _)
\* sum(map(lambda x: x[0] * x[1], zip(map(int, digits), weights))), from i
WeightedSum(digits, weights, i) ==
    IF i > Len(digits) \/ i > Len(weights) THEN 0
    ELSE find(DigitChars, digits[i]) * weights[i]
         + WeightedSum(digits, weights, i + 1)

\* CzechAccountNumber.parse (of a text the expression matches)
CzechAccountNumber_parse(value) ==
    [pre_num |-> IF value.dash THEN int_(value.pre) ELSE NoPreNum,
     pre_num_len |-> IF value.dash THEN Len(value.pre) ELSE 0,
     num |-> NumOf(value.num),
     num_len |-> Len(value.num),
     bank |-> int_(value.bank),
     bank_len |-> Len(value.bank)]

\* CzechAccountNumber.check_account_format
check_account_format(self) ==
    LET pre_num == rjust(str_(IF self.pre_num = NoPreNum THEN 0
                              ELSE self.pre_num), 6)
        num == rjust(NumStr(self.num), 10)
    IN /\ WeightedSum(num, NUM_WEIGHTS, 1) % 11 = 0
       /\ WeightedSum(pre_num, PRE_NUM_WEIGHTS, 1) % 11 = 0

RECURSIVE next_while(_)
\* the while loop of _brute_force_next
next_while(self) ==
    IF check_account_format(self) THEN self
    ELSE next_while([self EXCEPT !.num =
             Inc(IF Len(NumStr(self.num)) > 10 THEN ZeroNum ELSE self.num)])

\* CzechAccountNumber._brute_force_next
_brute_force_next(self) ==
    LET num == Inc(self.num)
    IN next_while([self EXCEPT !.num =
           IF Len(NumStr(num)) > 10 THEN ZeroNum ELSE num])

RECURSIVE brute_force_next(_, _)
brute_force_next(self, n) ==
    IF n = 0 THEN self ELSE brute_force_next(_brute_force_next(self), n - 1)

RECURSIVE prev_while(_)
\* the while loop of _brute_force_prev
prev_while(self) ==
    IF check_account_format(self) THEN self
    ELSE prev_while([self EXCEPT !.num =
             Dec(IF LeZero(self.num) THEN Nines ELSE self.num)])

\* CzechAccountNumber._brute_force_prev
_brute_force_prev(self) ==
    LET num == Dec(self.num)
    IN prev_while([self EXCEPT !.num = IF LeZero(num) THEN Nines ELSE num])

RECURSIVE brute_force_prev(_, _)
brute_force_prev(self, n) ==
    IF n = 0 THEN self ELSE brute_force_prev(_brute_force_prev(self), n - 1)

\* CzechAccountNumber.__str__
CzechAccountNumber__str__(self) ==
    [pre |-> IF self.pre_num \in {NoPreNum, 0} THEN <<>>
             ELSE rjust(str_(self.pre_num), self.pre_num_len),
     dash |-> self.pre_num \notin {NoPreNum, 0},
     num |-> rjust(NumStr(self.num), self.num_len),
     bank |-> rjust(str_(self.bank), self.bank_len)]

\* NumericFieldAnonymizer.get_numeric_encryption_key(encryption_key)
get_numeric_encryption_key(encryption_key) ==
    numerize_key(encryption_key) % max_anonymization_range

\* CzechAccountNumberFieldAnonymizer.get_encrypted_value and
\* get_decrypted_value, use_smart_method = True
CzechAccountNumber_translate(value, encryption_key, encrypting) ==
    LET account == CzechAccountNumber_parse(value)
        n == get_numeric_encryption_key(encryption_key)
    IN IF check_account_format(account)
       THEN CzechAccountNumber__str__(
                IF encrypting THEN brute_force_next(account, n)
                ELSE brute_force_prev(account, n))
       ELSE CzechAccountNumber__str__([account EXCEPT !.num =
                NumOf(translate_text(encryption_key, NumStr(account.num),
                                     encrypting, NUMBERS))])

(***************************************************************************)
(* SpecAccount: the text of an account number is encrypted and the result  *)
(* decrypted with the same key.                                            *)
(***************************************************************************)
AccountText(pre, dash, num, bank) ==
    [pre |-> pre, dash |-> dash, num |-> num, bank |-> bank]

Bank0800 == <<"0", "8", "0", "0">>

\* 19-2000145399/0800 and 2501277007/2010 (the tests), 9999999999/0800,
\* 94/0800, 0/0800, 0000000094/0800, 000000-2000145399/0800, and 20/0800,
\* whose check sum is wrong
AccountTexts ==
    {AccountText(<<"1", "9">>, TRUE,
                 <<"2", "0", "0", "0", "1", "4", "5", "3", "9", "9">>,
                 Bank0800),
     AccountText(<<>>, FALSE,
                 <<"2", "5", "0", "1", "2", "7", "7", "0", "0", "7">>,
                 <<"2", "0", "1", "0">>),
     AccountText(<<>>, FALSE,
                 <<"9", "9", "9", "9", "9", "9", "9", "9", "9", "9">>,
                 Bank0800),
     AccountText(<<>>, FALSE, <<"9", "4">>, Bank0800),
     AccountText(<<>>, FALSE, <<"0">>, Bank0800),
     AccountText(<<>>, FALSE,
                 <<"0", "0", "0", "0", "0", "0", "0", "0", "9", "4">>,
                 Bank0800),
     AccountText(<<"0", "0", "0", "0", "0", "0">>, TRUE,
                 <<"2", "0", "0", "0", "1", "4", "5", "3", "9", "9">>,
                 Bank0800),
     AccountText(<<>>, FALSE, <<"2", "0">>, Bank0800)}

AccountKeys == SeqsUpTo({"1", "7", "a"}, MaxKeyLen)

InitAccount ==
    /\ fA = EmptyM
    /\ fB = EmptyM
    /\ fOut = Fields(EmptyM, "T")
    /\ fpc = "off"
    /\ NoCalls
    /\ procs = <<>>
    /\ arg \in [value : AccountTexts, key : AccountKeys]
    /\ ret = NoRet

\* field.get_encrypted_value(value, key)
EncryptAccount ==
    /\ ~ret.done
    /\ ret' = [done |-> TRUE, decrypted |-> FALSE,
               enc |-> CzechAccountNumber_translate(arg.value, arg.key, TRUE),
               dec |-> arg.value]
    /\ UNCHANGED <<varsCalls, varsF, procs, arg, varsT>>

\* field.get_decrypted_value(encrypted, key)
DecryptAccount ==
    /\ ret.done
    /\ ~ret.decrypted
    /\ ret' = [ret EXCEPT
                  !.decrypted = TRUE,
                  !.dec = CzechAccountNumber_translate(ret.enc, arg.key, FALSE)]
    /\ UNCHANGED <<varsCalls, varsF, procs, arg, varsT>>

NextAccount == EncryptAccount \/ DecryptAccount

SpecAccount == InitAccount /\ [][NextAccount]_vars

(***************************************************************************)
(* Properties of SpecAccount                                               *)
(***************************************************************************)
\* the text passes the check sum
ValidAccount(value) == check_account_format(CzechAccountNumber_parse(value))

\* C21: for an account number that passes the check sum, the encrypted
\* text passes the check sum and decrypting it with the same key gives the
\* text back, character by character.
C21_SmartRoundTrip ==
    /\ (ret.done /\ ValidAccount(arg.value)) => ValidAccount(ret.enc)
    /\ (ret.done /\ ret.decrypted /\ ValidAccount(arg.value)) =>
          ret.dec = arg.value

\* 94/0800 was encrypted to a number of three digits and decrypted to
\* 094/0800
C21_Witness ==
    /\ arg.value = AccountText(<<>>, FALSE, <<"9", "4">>, Bank0800)
    /\ ret.done /\ ret.decrypted
    /\ Len(ret.enc.num) = 3
    /\ ret.dec.num = <<"0", "9", "4">>

\* for the numbers written with all ten digits and without a prefix of
\* zeros, across the wrap from 9999999999 to 0 too, the encrypted text
\* passes the check sum and the round trip gives the text back
C21_TenDigitsRoundTrip ==
    (ret.done /\ ret.decrypted /\ ValidAccount(arg.value)
       /\ Len(arg.value.num) = 10
       /\ (arg.value.dash => int_(arg.value.pre) # 0)) =>
          /\ ValidAccount(ret.enc)
          /\ ret.dec = arg.value

(***************************************************************************)
(* gdpr/encryption.py: translate_type_match and translate_iban             *)
(***************************************************************************)
\* str.upper() of a string of these characters
upper(s) ==
    [i \in DOMAIN s |->
        IF find(LETTERS_ONLY, s[i]) # -1
        THEN LETTERS_UPPER[find(LETTERS_ONLY, s[i]) + 1] ELSE s[i]]

\* str.find(sub) of a string: the index of the first occurrence, from 0, or
\* -1; the empty string is found at 0
find_str(s, sub) ==
    LET at == {i \in 0..(Len(s) - Len(sub)) :
                  SubSeq(s, i + 1, i + Len(sub)) = sub}
    IN IF at = {} THEN -1 ELSE CHOOSE i \in at : \A j \in at : i <= j

\* str(ord(char))[-1]
last_digit_of_ord(char) ==
    LET digits == str_(ord(char)) IN <<digits[Len(digits)]>>

RECURSIVE type_match_from(_, _, _, _, _, _, _, _)
\* the loop of translate_type_match from the character i of the text on;
\* alphabet is the variable of that name, which the loop assigns to
type_match_from(key, text, encrypting, numbers, alphabet, i, key_index, translated) ==
    IF i > Len(text) THEN translated
    ELSE LET char == text[i]
             is_symbol_number == find(numbers, char) # -1
             alphabet_ == IF is_symbol_number THEN numbers ELSE alphabet
             actual_key == IF ~is_symbol_number THEN key
                           ELSE last_digit_of_ord(key[key_index + 1])
             num == find(alphabet_, char)
             shifted == (num + (IF encrypting THEN 1 ELSE -1)
                                  * find_str(alphabet_, actual_key))
                        % Len(alphabet_)
         IN IF num # -1
            THEN type_match_from(key, text, encrypting, numbers, alphabet_,
                     i + 1,
                     IF key_index + 1 = Len(key) THEN 0 ELSE key_index + 1,
                     Append(translated, alphabet_[shifted + 1]))
            ELSE type_match_from(key, text, encrypting, numbers, alphabet_,
                     i + 1, key_index, Append(translated, char))

\* translate_type_match(key, text, encrypt, numbers, alphabet)
translate_type_match(key, text, encrypting, numbers, alphabet) ==
    type_match_from(key, text, encrypting, numbers, alphabet, 1, 0, <<>>)

\* a translate_iban that translates the country code with the rest
translate_ibanWhole(key, iban, encrypting) ==
    translate_type_match(key, upper(iban), encrypting, NUMBERS, LETTERS_UPPER)

\* translate_iban(key, iban, encrypt)
translate_iban(key, iban, encrypting) ==
    upper(SubSeq(iban, 1, 2))
    \o translate_type_match(key, upper(SubSeq(iban, 3, Len(iban))),
                            encrypting, NUMBERS, LETTERS_UPPER)

(***************************************************************************)
(* SpecIban: an IBAN is translated with a key and translated back.         *)
(***************************************************************************)
\* the characters after the country code: letters, digits, the space, and
\* a small letter
IbanChars == {"A", "Z", "1", "0", " ", "b"}

CountryCodes == {<<"C", "Z">>, <<"g", "b">>}

IbanKeys == SeqsUpTo({"B", "o", "7"}, MaxKeyLen)

\* the key and the IBAN of the documented example, and its documented result
LoremIpsum == <<"L", "o", "r", "e", "m", "I", "p", "s", "u", "m">>
DocumentedIban ==
    <<"G", "B", "2", "9", "N", "W", "B", "K", "6", "0", "1", "6", "1", "3",
      "3", "1", "9", "2", "6", "8", "1", "9">>
DocumentedResult ==
    <<"G", "B", "7", "9", "M", "V", "A", "J", "7", "4", "7", "4", "6", "3",
      "6", "1", "7", "4", "7", "2", "7", "7">>

IbanArgs ==
    {[key |-> k, text |-> cc \o rest] :
        k \in IbanKeys, cc \in CountryCodes,
        rest \in {<<>>} \cup SeqsUpTo(IbanChars, MaxText)}
    \cup {[key |-> LoremIpsum, text |-> DocumentedIban]}

InitIban ==
    /\ fA = EmptyM
    /\ fB = EmptyM
    /\ fOut = Fields(EmptyM, "T")
    /\ fpc = "off"
    /\ NoCalls
    /\ procs = <<>>
    /\ arg \in IbanArgs
    /\ ret = NoRet

\* translate_iban(key, iban), and translate_type_match(key, iban)
EncryptIban ==
    /\ ~ret.done
    /\ ret' = [done |-> TRUE, decrypted |-> FALSE,
               enc |-> translate_iban(arg.key, arg.text, TRUE),
               matched |-> translate_type_match(arg.key, arg.text, TRUE,
                                                NUMBERS, LETTERS_UPPER),
               dec |-> <<>>]
    /\ UNCHANGED <<varsCalls, varsF, procs, arg, varsT>>

\* translate_iban(key, encrypted, encrypt=False)
DecryptIban ==
    /\ ret.done
    /\ ~ret.decrypted
    /\ ret' = [ret EXCEPT !.decrypted = TRUE,
                          !.dec = translate_iban(arg.key, ret.enc, FALSE)]
    /\ UNCHANGED <<varsCalls, varsF, procs, arg, varsT>>

NextIban == EncryptIban \/ DecryptIban

SpecIban == InitIban /\ [][NextIban]_vars

(***************************************************************************)
(* Properties of SpecIban                                                  *)
(***************************************************************************)
IsDigit(char) == find(NUMBERS, char) # -1
IsLetter(char) == find(LETTERS_UPPER, char) # -1 \/ find(LETTERS_ONLY, char) # -1

\* the text has capitals, digits and spaces only
IsIbanText(text) ==
    \A i \in DOMAIN text :
        IsDigit(text[i]) \/ find(LETTERS_UPPER, text[i]) # -1 \/ text[i] = " "

\* out has the length of text, a digit where text has a digit, a letter
\* where text has a letter, and the character of text elsewhere
SamePattern(text, out) ==
    /\ Len(out) = Len(text)
    /\ \A i \in DOMAIN text :
          /\ IsDigit(text[i]) => IsDigit(out[i])
          /\ IsLetter(text[i]) => IsLetter(out[i])
          /\ (~IsDigit(text[i]) /\ ~IsLetter(text[i])) => out[i] = text[i]

\* C22: translate_iban, encrypting and decrypting, returns a string of the
\* same length with a digit where the input has a digit, a letter where it
\* has a letter and every other character unchanged; the country code of
\* an IBAN (capitals, digits, spaces) is unchanged, that of a text with
\* small letters comes back in capitals.
C22_IbanKeepsPattern ==
    /\ ret.done =>
          /\ SamePattern(arg.text, ret.enc)
          /\ SubSeq(ret.enc, 1, 2) = upper(SubSeq(arg.text, 1, 2))
          /\ IsIbanText(arg.text) =>
                SubSeq(ret.enc, 1, 2) = SubSeq(arg.text, 1, 2)
    /\ (ret.done /\ ret.decrypted) =>
          /\ SamePattern(ret.enc, ret.dec)
          /\ SubSeq(ret.dec, 1, 2) = SubSeq(ret.enc, 1, 2)

\* CZ1A was translated with the key Bo: a digit and a letter came out
C22_Witness ==
    /\ arg.key = <<"B", "o">>
    /\ arg.text = <<"C", "Z", "1", "A">>
    /\ ret.done /\ ret.decrypted
    /\ ret.enc[3] # "1" /\ IsDigit(ret.enc[3])
    /\ IsLetter(ret.enc[4])
    /\ ret.dec = arg.text

RECURSIVE by_class_from(_, _, _, _, _, _, _, _)
\* the translation of every character within the alphabet of its kind
by_class_from(key, text, encrypting, numbers, alphabet, i, key_index, translated) ==
    IF i > Len(text) THEN translated
    ELSE LET char == text[i]
             is_symbol_number == find(numbers, char) # -1
             alphabet_ == IF is_symbol_number THEN numbers ELSE alphabet
             actual_key == IF ~is_symbol_number THEN key
                           ELSE last_digit_of_ord(key[key_index + 1])
             num == find(alphabet_, char)
             shifted == (num + (IF encrypting THEN 1 ELSE -1)
                                  * find_str(alphabet_, actual_key))
                        % Len(alphabet_)
         IN IF num # -1
            THEN by_class_from(key, text, encrypting, numbers, alphabet,
                     i + 1,
                     IF key_index + 1 = Len(key) THEN 0 ELSE key_index + 1,
                     Append(translated, alphabet_[shifted + 1]))
            ELSE by_class_from(key, text, encrypting, numbers, alphabet,
                     i + 1, key_index, Append(translated, char))

\* C30: translate_type_match and translate_iban translate every letter
\* within the letters and every digit within the digits wherever they
\* stand, the letters after a digit too, and the documented example gives
\* the documented result.
C30_LettersAfterDigitsTranslated ==
    ret.done =>
       /\ ret.matched = by_class_from(arg.key, upper(arg.text), TRUE, NUMBERS,
                                      LETTERS_UPPER, 1, 0, <<>>)
       /\ ret.enc = upper(SubSeq(arg.text, 1, 2))
                    \o by_class_from(arg.key,
                           upper(SubSeq(arg.text, 3, Len(arg.text))), TRUE,
                           NUMBERS, LETTERS_UPPER, 1, 0, <<>>)
       /\ (arg.key = LoremIpsum /\ arg.text = DocumentedIban)
             => ret.enc = DocumentedResult

\* the documented example was translated: the letters NWBK after the
\* digits 29 are as they were, and translating back gives the IBAN
C30_Witness ==
    /\ arg.key = LoremIpsum /\ arg.text = DocumentedIban
    /\ ret.done /\ ret.decrypted
    /\ ret.enc = <<"G", "B", "7", "9", "N", "W", "B", "K", "9", "0", "9",
                   "8", "2", "7", "9", "9", "4", "2", "9", "8", "9", "1">>
    /\ ret.enc # DocumentedResult
    /\ ret.dec = DocumentedIban

(***************************************************************************)
(* gdpr/encryption.py: translate_number.  A number is its type, its sign   *)
(* (1 for negative), the digits of its coefficient and its exponent: the   *)
(* int -105 is ("int", 1, 105, 0) and Decimal("1.50") is                   *)
(* ("Decimal", 0, 150, -2).                                                *)
(***************************************************************************)
\* encryption.NUMBERS_WITHOUT_ZERO
NUMBERS_WITHOUT_ZERO == <<"1", "2", "3", "4", "5", "6", "7", "8", "9">>

Zeros(n) == [i \in 1..n |-> "0"]

RECURSIVE lstrip_zeros(_)
\* s.lstrip("0") or "0"
lstrip_zeros(s) ==
    IF Len(s) <= 1 THEN (IF s = <<>> THEN <<"0">> ELSE s)
    ELSE IF s[1] = "0" THEN lstrip_zeros(Tail(s)) ELSE s

\* str(number): of an int the sign and the digits; of a Decimal the plain
\* notation when the exponent is not positive and more than -6 digits stand
\* left of the point, the scientific notation otherwise
number__str__(number) ==
    LET sign == IF number.sign = 1 THEN <<"-">> ELSE <<>>
        digits == number.digits
        leftdigits == number.exp + Len(digits)
        dotplace == IF number.exp <= 0 /\ leftdigits > -6 THEN leftdigits
                    ELSE 1
        intpart == IF dotplace <= 0 THEN <<"0">>
                   ELSE IF dotplace >= Len(digits)
                        THEN digits \o Zeros(dotplace - Len(digits))
                        ELSE SubSeq(digits, 1, dotplace)
        fracpart == IF dotplace <= 0
                    THEN <<".">> \o Zeros(-dotplace) \o digits
                    ELSE IF dotplace >= Len(digits) THEN <<>>
                         ELSE <<".">> \o SubSeq(digits, dotplace + 1,
                                                Len(digits))
        e == leftdigits - dotplace
        exp == IF e = 0 THEN <<>>
               ELSE <<"E">> \o (IF e < 0 THEN <<"-">> \o str_(-e)
                                ELSE <<"+">> \o str_(e))
    IN IF number.type = "int" THEN sign \o digits
       ELSE sign \o intpart \o fracpart \o exp

\* original_type(text): int(text) or Decimal(text)
number_parse(original_type, text) ==
    LET signed == text # <<>> /\ text[1] = "-"
        body == IF signed THEN Tail(text) ELSE text
        e == find(body, "E")
        mantissa == IF e = -1 THEN body ELSE SubSeq(body, 1, e)
        exponent == IF e = -1 THEN 0
                    ELSE LET part == SubSeq(body, e + 2, Len(body))
                         IN IF part[1] = "-" THEN -int_(Tail(part))
                            ELSE IF part[1] = "+" THEN int_(Tail(part))
                            ELSE int_(part)
        dot == find(mantissa, ".")
        intpart == IF dot = -1 THEN mantissa ELSE SubSeq(mantissa, 1, dot)
        fracpart == IF dot = -1 THEN <<>>
                    ELSE SubSeq(mantissa, dot + 2, Len(mantissa))
        digits == lstrip_zeros(intpart \o fracpart)
    IN IF original_type = "int"
       THEN [type |-> "int", digits |-> digits, exp |-> 0,
             sign |-> IF signed /\ digits # <<"0">> THEN 1 ELSE 0]
       ELSE [type |-> "Decimal", digits |-> digits,
             exp |-> exponent - Len(fracpart),
             sign |-> IF signed THEN 1 ELSE 0]

\* translate_number(key, number, encrypt)
translate_number(key, number, encrypting) ==
    LET original_type == number.type
        str_number == number__str__(number)
        n == Len(str_number)
        first(i) == translate_text(key, <<str_number[i]>>, encrypting,
                                   NUMBERS_WITHOUT_ZERO)
        rest(i, j) == translate_text(key, SubSeq(str_number, i, j),
                                     encrypting, NUMBERS)
    IN IF find(str_number, "-") # -1
       THEN IF find(str_number, ".") # -1
            THEN number_parse(original_type,
                     <<str_number[1]>> \o first(2) \o rest(3, n - 1)
                     \o first(n))
            ELSE number_parse(original_type,
                     <<str_number[1]>> \o first(2) \o rest(3, n))
       ELSE IF find(str_number, ".") # -1
            THEN number_parse(original_type,
                     first(1) \o rest(2, n - 1) \o first(n))
            ELSE number_parse(original_type, first(1) \o rest(2, n))

(***************************************************************************)
(* SpecNumber: a number is translated with a key and translated back.      *)
(***************************************************************************)
\* coefficients without a leading zero
Coefficients ==
    {d \in SeqsUpTo({"0", "1", "5"}, MaxText) : Len(d) = 1 \/ d[1] # "0"}

Exponents == {-7, -2, -1, 0, 2}

NumberKeys == SeqsUpTo({"7", "a", "3"}, MaxKeyLen)

Numbers ==
    {[type |-> "Decimal", sign |-> s, digits |-> d, exp |-> e] :
        s \in {0, 1}, d \in Coefficients, e \in Exponents}
    \cup {[type |-> "int", sign |-> s, digits |-> d, exp |-> 0] :
             s \in {0}, d \in Coefficients}
    \cup {[type |-> "int", sign |-> s, digits |-> d, exp |-> 0] :
             s \in {1}, d \in Coefficients \ {<<"0">>}}

InitNumber ==
    /\ fA = EmptyM
    /\ fB = EmptyM
    /\ fOut = Fields(EmptyM, "T")
    /\ fpc = "off"
    /\ NoCalls
    /\ procs = <<>>
    /\ arg \in {[key |-> k, number |-> n] : k \in NumberKeys, n \in Numbers}
    /\ ret = NoRet

\* translate_number(key, number)
EncryptNumber ==
    /\ ~ret.done
    /\ ret' = [done |-> TRUE, decrypted |-> FALSE,
               enc |-> translate_number(arg.key, arg.number, TRUE),
               dec |-> arg.number]
    /\ UNCHANGED <<varsCalls, varsF, procs, arg, varsT>>

\* translate_number(key, encrypted, encrypt=False)
DecryptNumber ==
    /\ ret.done
    /\ ~ret.decrypted
    /\ ret' = [ret EXCEPT !.decrypted = TRUE,
                          !.dec = translate_number(arg.key, ret.enc, FALSE)]
    /\ UNCHANGED <<varsCalls, varsF, procs, arg, varsT>>

NextNumber == EncryptNumber \/ DecryptNumber

SpecNumber == InitNumber /\ [][NextNumber]_vars

(***************************************************************************)
(* Properties of SpecNumber                                                *)
(***************************************************************************)
\* the number of digits of the number written with all its places
NumDigits(number) ==
    IF number.exp > 0 THEN Len(number.digits) + number.exp
    ELSE IF Len(number.digits) > 1 - number.exp THEN Len(number.digits)
         ELSE 1 - number.exp

\* the first digit of that writing
LeadingDigit(number) ==
    IF Len(number.digits) > -number.exp THEN number.digits[1] ELSE "0"

\* out has the type, the sign, the number of digits and the place of the
\* decimal point of number, and no zero in front where number has none
SameFormat(number, out) ==
    /\ out.type = number.type
    /\ out.sign = number.sign
    /\ out.exp = number.exp
    /\ NumDigits(out) = NumDigits(number)
    /\ LeadingDigit(number) # "0" => LeadingDigit(out) # "0"

\* str(number) is in the plain notation
IsPlain(number) == find(number__str__(number), "E") = -1

\* C23: translate_number, encrypting and decrypting, returns a number of
\* the same type, sign, number of digits and place of the decimal point,
\* and a leading digit that is not 0 does not become 0.
C23_NumberKeepsFormat ==
    /\ ret.done => SameFormat(arg.number, ret.enc)
    /\ (ret.done /\ ret.decrypted) => SameFormat(ret.enc, ret.dec)

\* the same for the numbers that str() writes in the plain notation
C23_PlainNumberKeepsFormat ==
    /\ (ret.done /\ IsPlain(arg.number)) => SameFormat(arg.number, ret.enc)
    /\ (ret.done /\ ret.decrypted /\ IsPlain(ret.enc))
          => SameFormat(ret.enc, ret.dec)

\* Decimal("1E-7") was translated with the key 7 to Decimal("0.001"), and
\* translating back gave Decimal("0.444")
C23_Witness ==
    /\ arg.key = <<"7">>
    /\ arg.number = [type |-> "Decimal", sign |-> 0, digits |-> <<"1">>,
                     exp |-> -7]
    /\ ret.done /\ ret.decrypted
    /\ ret.enc = [type |-> "Decimal", sign |-> 0, digits |-> <<"1">>,
                  exp |-> -3]
    /\ ret.dec = [type |-> "Decimal", sign |-> 0,
                  digits |-> <<"4", "4", "4">>, exp |-> -3]

\* the int -15 was translated with the key 7a to -71 and back
C23_PlainWitness ==
    /\ arg.key = <<"7", "a">>
    /\ arg.number = [type |-> "int", sign |-> 1, digits |-> <<"1", "5">>,
                     exp |-> 0]
    /\ ret.done /\ ret.decrypted
    /\ ret.enc = [type |-> "int", sign |-> 1, digits |-> <<"7", "1">>,
                  exp |-> 0]
    /\ ret.dec = arg.number

(***************************************************************************)
(* SpecLifecycle: legal reasons are created for the customer and then      *)
(* ended one at a time, each by expire or by deactivate, in any order.     *)
(***************************************************************************)
\* create_consent, while no reason of the customer has been ended
create_consentFirst ==
    /\ \A s \in Range(Purposes) : reasons[s] \in {"none", "ACTIVE"}
    /\ create_consent

\* LegalReason.expire of an active reason
expireActive == expire /\ reasons[cur'.sel] = "ACTIVE"

\* LegalReason.deactivate of an active reason
deactivateActive == deactivate /\ reasons[cur'.sel] = "ACTIVE"

NextLifecycle == create_consentFirst \/ expireActive \/ deactivateActive

SpecLifecycle == Init /\ [][NextLifecycle]_vars

(***************************************************************************)
(* Properties of SpecLifecycle                                             *)
(***************************************************************************)
\* the fields the purpose's matrix names, on the customer and through the
\* relations, in the storage st
CoversIn(st, slug) ==
    Reach(st, Fields(PurposeFields(slug), "Customer"), "c1")

EndedReasons == {s \in Range(Purposes) : reasons[s] \in {"EXPIRED", "DEACTIVATED"}}

NoneActive == \A s \in Range(Purposes) : reasons[s] # "ACTIVE"

\* every field a reason of the customer names is anonymized: one marker,
\* the original value under the codec once
AllCoveredAnonymized ==
    \A p \in UNION {CoversIn(db, s) : s \in EndedReasons} : Anonymized(p)

\* the step ends the active reason slug
Ends(slug) ==
    /\ reasons[slug] = "ACTIVE"
    /\ reasons'[slug] \in {"EXPIRED", "DEACTIVATED"}

\* the step that ends a reason anonymizes the fields the reason names and
\* no other reason still active names, and touches no other field
EndAnonymizesLastCovered ==
    \A slug \in Range(Purposes) :
       Ends(slug) =>
          LET stillActive == {s \in Range(Purposes) :
                                 s # slug /\ reasons[s] = "ACTIVE"}
              last == CoversIn(db, slug)
                      \ UNION {CoversIn(db, s) : s \in stillActive}
          IN /\ db'.markers \ db.markers = last
             /\ db.markers \subseteq db'.markers
             /\ db.markers \cap last = {}
             /\ \A p \in Pairs \ last : Stored(db', p) = Stored(db, p)

OtherMatrices ==
    {EmptyM,
     ALL,
     Strs(<<"a">>),
     Tup(<<S("b"), R("r", Strs(<<"x">>))>>),
     Tup(<<R("r", Tup(<<S("y"), R("s", Strs(<<"x">>))>>))>>),
     Tup(<<R("r", ALL)>>)}

InitOthers ==
    /\ fA \in MatricesT
    /\ fB \in OtherMatrices
    /\ fOut = Fields(fA, "T")
    /\ fpc = "init"
    /\ NoCalls
    /\ procs = <<>>
    /\ arg \in {[other |-> m] : m \in OtherMatrices}
    /\ ret = NoRet

\* fields -= Fields(fB, model)
SubtractFirst ==
    /\ fpc \in {"init", "second"}
    /\ fOut' = __isub__(fOut, Fields(fB, "T"))
    /\ fpc' = IF fpc = "init" THEN "first" ELSE "done"
    /\ UNCHANGED <<fA, fB, varsCalls, varsX>>

\* fields -= Fields(arg.other, model)
SubtractSecond ==
    /\ fpc \in {"init", "first"}
    /\ fOut' = __isub__(fOut, Fields(arg.other, "T"))
    /\ fpc' = IF fpc = "init" THEN "second" ELSE "done"
    /\ UNCHANGED <<fA, fB, varsCalls, varsX>>

\* AbstractPurpose.anonymize_obj with other active reasons: the matrices of
\* their purposes come from a set of slugs, in whatever order
FilterFields ==
    /\ ~ret.done
    /\ \E other_fields \in {<<fB, arg.other>>, <<arg.other, fB>>} :
          ret' = [done |-> TRUE,
                  filtered_fields |-> get_filtered_fields("T", fA,
                                                          other_fields)]
    /\ UNCHANGED <<varsCalls, varsF, procs, arg, varsT>>

NextOthers == SubtractFirst \/ SubtractSecond \/ FilterFields

SpecOthers == InitOthers /\ [][NextOthers]_vars

(***************************************************************************)
(* Properties of SpecOthers                                                *)
(***************************************************************************)
RECURSIVE SameTree(_, _)
\* the same local fields in the same order and the same relations with the
\* same nested selections
SameTree(f, g) ==
    /\ f.local = g.local
    /\ DictKeys(f.related) = DictKeys(g.related)
    /\ \A k \in DictKeys(f.related) :
          SameTree(f.related[DictGet(f.related, k)].fields,
                   g.related[DictGet(g.related, k)].fields)

\* C26: the matrix get_filtered_fields computes from the matrix of R and
\* those of the other active purposes parses to the selection that is left
\* of R's parsed selection when the parsed selections of the others are
\* subtracted from it one after the other; when nothing is left the matrix
\* is empty and the anonymizer anonymizes nothing.
C26_FilteredIsSubtraction ==
    (fpc = "done" /\ ret.done) =>
        /\ SameTree(Fields(ret.filtered_fields, "T"), fOut)
        /\ __len__(fOut) = 0 => ret.filtered_fields = EmptyM

\* R names a, b and the relation r with x and y; the others name b and x
\* of r, and y and the relation s of r: a is left
C26_Witness ==
    /\ fpc = "done" /\ ret.done
    /\ fA = Tup(<<S("a"), S("b"), R("r", Strs(<<"x", "y">>))>>)
    /\ fB = Tup(<<S("b"), R("r", Strs(<<"x">>))>>)
    /\ arg.other = Tup(<<R("r", Tup(<<S("y"), R("s", Strs(<<"x">>))>>))>>)
    /\ ret.filtered_fields = Strs(<<"a">>)
    /\ fOut.local = <<"a">> /\ fOut.related = <<>>

\* C27: subtracting the selections of two other purposes from a selection
\* gives the same local fields and the same relations whichever of the two
\* is subtracted first.
C27_SubtractionOrderIndependent ==
    fpc = "done" =>
        /\ fOut = __isub__(__isub__(Fields(fA, "T"), Fields(fB, "T")),
                           Fields(arg.other, "T"))
        /\ fOut = __isub__(__isub__(Fields(fA, "T"), Fields(arg.other, "T")),
                           Fields(fB, "T"))

\* the local field b went with the one subtraction and the relation r with
\* the other
C27_Witness ==
    /\ fpc = "done"
    /\ fA = Tup(<<S("a"), S("b"), R("r", Strs(<<"x">>))>>)
    /\ fB = Tup(<<S("b"), R("r", Strs(<<"x">>))>>)
    /\ arg.other = Strs(<<"a">>)
    /\ fOut.local = <<>> /\ fOut.related = <<>>

(***************************************************************************)
(* SpecAtomic: legal reasons of the customer for three purposes, one of    *)
(* which (EIB) names the IBAN of the accounts; the IBAN of account a1 does *)
(* not parse, so the anonymization for EIB raises after the customer's own *)
(* fields are written.                                                     *)
(***************************************************************************)
AtomicSlugs == {"PEA", "ACC", "EIB"}

InitAtomic ==
    /\ fA = EmptyM
    /\ fB = EmptyM
    /\ fOut = Fields(EmptyM, "T")
    /\ fpc = "off"
    /\ db = InitialStorage
    /\ stack = <<>>
    /\ cur = NoCall
    /\ result = "none"
    /\ prev = [call |-> NoCall, result |-> "none"]
    /\ snap = InitialStorage
    /\ snapPrev = InitialStorage
    /\ trace = NoTrace
    /\ ncalls = 0
    /\ reasons = [s \in AtomicSlugs |-> "none"]
    /\ expires_at = [s \in AtomicSlugs |-> 0]
    /\ now = 0
    /\ procs = <<>>
    /\ arg = <<>>
    /\ ret = NoRet

\* LegalReason.objects.create_consent(purpose_slug, customer)
create_consentAtomic ==
    \E slug \in AtomicSlugs :
       /\ reasons[slug] # "ACTIVE"
       /\ reasons' = [reasons EXCEPT ![slug] = "ACTIVE"]
       /\ expires_at' = [expires_at EXCEPT
                            ![slug] = now + expiration_timedelta(slug)]
       /\ cur' = ReasonCall("create_consent", slug)
       /\ prev' = [call |-> NoCall, result |-> "none"]
       /\ snap' = db
       /\ snapPrev' = db
       /\ result' = "ok"
       /\ trace' = NoTrace
       /\ UNCHANGED <<db, stack, ncalls, varsF, procs, arg, ret, now>>

\* LegalReason.expire
expireAtomic ==
    \E slug \in AtomicSlugs :
       Transaction("expire", slug, Purpose_anonymize_obj(db, reasons, slug),
                   "EXPIRED", expires_at[slug])

\* LegalReason.deactivate
deactivateAtomic ==
    \E slug \in AtomicSlugs :
       Transaction("deactivate", slug,
                   Purpose_anonymize_obj(db, reasons, slug), "DEACTIVATED",
                   expires_at[slug])

NextAtomic == create_consentAtomic \/ expireAtomic \/ deactivateAtomic

SpecAtomic == InitAtomic /\ [][NextAtomic]_vars

(***************************************************************************)
(* Properties of SpecAtomic                                                *)
(***************************************************************************)
\* the step is expire or deactivate called on the reason slug
EndCall(slug) ==
    /\ cur'.op \in {"expire", "deactivate"}
    /\ cur'.sel = slug
    /\ ncalls' = ncalls + 1

\* the fields the reason names and no other active reason of the customer
\* names
ExclusiveIn(st, rs, slug) ==
    CoversIn(st, slug)
    \ UNION {CoversIn(st, s) : s \in {t \in DOMAIN rs \ {slug} :
                                        rs[t] = "ACTIVE"}}

\* a call that raises leaves the state of the reason, every value and every
\* marker as they were; a call that returns sets the state and has every
\* field that only this reason named anonymized
AllOrNothing ==
    \A slug \in AtomicSlugs :
       EndCall(slug) =>
          /\ result' \in {"ok", "raised"}
          /\ result' = "raised" =>
                /\ db' = db
                /\ reasons' = reasons
          /\ result' = "ok" =>
                /\ reasons'[slug] =
                      (IF cur'.op = "expire" THEN "EXPIRED"
                       ELSE "DEACTIVATED")
                /\ \A p \in ExclusiveIn(db, reasons, slug) :
                      /\ p \in db'.markers
                      /\ p \notin db.markers =>
                            Stored(db', p) =
                               get_value_from_obj(CodecOf(p), Stored(db, p),
                                                  db'.anonKey[p], TRUE)

\* no reason is expired or deactivated with a field only it names left
\* without marker
NoEndedReasonUncovered ==
    \A slug \in AtomicSlugs :
       reasons[slug] \in {"EXPIRED", "DEACTIVATED"} =>
          ExclusiveIn(db, reasons, slug) \subseteq db.markers

C28_WitnessReturned ==
    /\ cur = ReasonCall("expire", "ACC")
    /\ result = "ok"
    /\ reasons["ACC"] = "EXPIRED"
    /\ <<"a1", "number">> \in db.markers \ snap.markers

(***************************************************************************)
(* SpecDelete: anonymize_obj calls, each run to its end, and deletions of  *)
(* objects by Model.delete() of AnonymizationModelMixin.                   *)
(***************************************************************************)
DeleteCalls ==
    {Call("a1", "acct", NoKey, 1, TRUE),
     Call("a1", "self", 1, NoKey, TRUE),
     Call("c1", "tree", NoKey, NoKey, TRUE),
     Call("n2", "form", NoKey, 1, TRUE)}

\* the objects delete() is called on
Deleted == {"a1", "p1", "n2"}

\* AnonymizationModelMixin.delete: super().delete() deletes the object and
\* what cascades from it, then the AnonymizedData rows of the object itself
\* are deleted; cleanup tells whether that query succeeds (its Error is
\* caught and reported as a warning)
Model_delete(st, o, cleanup) ==
    [st EXCEPT
        !.alive = @ \ Cascade(o),
        !.markers = IF cleanup THEN {p \in @ : p[1] # o} ELSE @]

\* a step that is no anonymizer's update_obj
Recorded(c, res) ==
    /\ cur' = c
    /\ prev' = [call |-> cur, result |-> result]
    /\ snap' = db
    /\ snapPrev' = snap
    /\ result' = res
    /\ trace' = NoTrace
    /\ UNCHANGED <<stack, reasons, varsF, varsX>>

\* anonymizer.anonymize_obj(obj, fields=...), to its end
AnonymizeWhole ==
    \E c \in DeleteCalls :
       /\ ncalls < MaxCalls
       /\ c.root \in db.alive
       /\ LET run == RunAll(db, <<RootFrame(c)>>, NoRandom)
          IN /\ db' = run.st
             /\ Recorded(c, IF run.raised THEN "raised" ELSE "ok")
       /\ ncalls' = ncalls + 1

\* obj.delete()
ModelDelete ==
    \E o \in Deleted \cap db.alive :
       /\ db' = Model_delete(db, o, TRUE)
       /\ Recorded([Call(o, "", NoKey, NoKey, TRUE) EXCEPT !.op = "delete"],
                   "ok")
       /\ UNCHANGED ncalls

\* obj.delete() when the cleanup query fails: a warning, the rows stay
ModelDeleteWarns ==
    \E o \in Deleted \cap db.alive :
       /\ \E p \in db.markers : p[1] = o
       /\ db' = Model_delete(db, o, FALSE)
       /\ Recorded([Call(o, "", NoKey, NoKey, TRUE) EXCEPT !.op = "delete"],
                   "warned")
       /\ UNCHANGED ncalls

NextDelete == AnonymizeWhole \/ ModelDelete \/ ModelDeleteWarns

SpecDelete == Init /\ [][NextDelete]_vars

(***************************************************************************)
(* Properties of SpecDelete                                                *)
(***************************************************************************)
\* C29: after any sequence of anonymizations and deletions, by
\* Model.delete() or by a DeleteModelAnonymizer with __SELF__, every marker
\* refers to an object that exists.
C29_MarkersReferToExisting == \A p \in db.markers : p[1] \in db.alive

\* Model.delete() whose cleanup succeeds leaves no marker of the object it
\* is called on
C29_DeleteRemovesOwnMarkers ==
    (cur.op = "delete" /\ result = "ok") =>
        \A p \in db.markers : p[1] # cur.root

\* the number of account a1 was anonymized, then the account was deleted
\* by its anonymizer with __SELF__: the marker of the number is left
C29_Witness ==
    /\ prev.call = Call("a1", "acct", NoKey, 1, TRUE)
    /\ cur = Call("a1", "self", 1, NoKey, TRUE)
    /\ result = "ok"
    /\ "a1" \notin db.alive
    /\ <<"a1", "number">> \in db.markers

\* the customer's tree was anonymized and account a1 deleted by delete():
\* the markers of a1 are gone, that of the payment deleted with it is left
C29_CascadeWitness ==
    /\ cur.op = "delete" /\ cur.root = "a1" /\ result = "ok"
    /\ "p1" \notin db.alive
    /\ <<"p1", "value">> \in db.markers
    /\ <<"a1", "number">> \in snap.markers \ db.markers

====
